---- MODULE Spec2Model ----
(***************************************************************************)
(* A model of the volunteer bot's conversation engine (src/ajubot.py), its *)
(* dynamic keyboards (src/keyboards.py) and the backend client's lookup    *)
(* (src/backend_api.py).                                                   *)
(*                                                                         *)
(* Every handler of the bot is an operator from a "world" record (the      *)
(* dispatcher's user_data and bot_data, the keys the persistence layer     *)
(* holds, the menus on each user's screen, and the handler's outputs) to   *)
(* the world it leaves behind.  An action applies one handler to the       *)
(* current state and keeps the store it leaves.  What a handler sends to   *)
(* the chats (`sent`, `edited`) and to the backend (`calls`), and whether  *)
(* it returned or raised (`ok`), are fields of the world it returns: a     *)
(* property of a handler is stated of the handler applied to a reachable   *)
(* state.  The notification handlers also run cut into steps on a worker   *)
(* thread (`worker`), next to the handlers of the other threads.           *)
(*                                                                         *)
(* The spec calls the steps AWAITING_x; the source calls them EXPECTING_x  *)
(* (and EXPECTING_PHONE_NUMBER for AWAITING_PHONE).  The model keeps the   *)
(* source's names.                                                          *)
(***************************************************************************)
EXTENDS Naturals, Sequences, FiniteSets, TLC

\* user_data      dispatcher.user_data: chat id -> that user's dict
\* bot_data       dispatcher.bot_data without "registrations": the requests
\* registrations  bot_data["registrations"]: chat id -> pending profile
\* known          the keys of dispatcher.user_data
\* persisted      the keys of persistence.user_data
\* shown          the inline menus sent to each chat; a message keeps its
\*                buttons, so a button can be pressed once its menu was sent
\* worker         the notification handler a worker thread is running
\*                (@run_async): its position, its arguments and locals
VARIABLES user_data, bot_data, registrations, known, persisted, shown, worker

vars == <<user_data, bot_data, registrations, known, persisted, shown, worker>>

(***************************************************************************)
(* Values                                                                  *)
(***************************************************************************)
\* A key that is not in a Python dict, and Python's None.
NoKey == "NoKey"
None == "None"

\* An optional structured value: <<>> when the key is absent, <<v>> otherwise.
Absent == <<>>
Some(v) == <<v>>
Get(o) == o[1]

\* Chat ids of the volunteers and ids of the requests the backend talks about.
Users == {"A", "B"}
Requests == {"R1", "R2"}

\* c.State, as the handlers use it.
EXPECTING_PHONE_NUMBER == "EXPECTING_PHONE_NUMBER"
AVAILABLE == "AVAILABLE"
REQUEST_SENT == "REQUEST_SENT"
REQUEST_ASSIGNED == "REQUEST_ASSIGNED"
REQUEST_IN_PROGRESS == "REQUEST_IN_PROGRESS"
EXPECTING_AMOUNT == "EXPECTING_AMOUNT"
EXPECTING_RECEIPT == "EXPECTING_RECEIPT"
EXPECTING_EXIT_SURVEY == "EXPECTING_EXIT_SURVEY"
EXPECTING_FURTHER_COMMENTS == "EXPECTING_FURTHER_COMMENTS"
EXPECTING_PROFILE_DETAILS == "EXPECTING_PROFILE_DETAILS"

Range(s) == {s[i] : i \in DOMAIN s}

RECURSIVE RemoveFirst(_, _)
\* list.remove(x): drops the first occurrence of x.
RemoveFirst(l, x) ==
    IF l = <<>> THEN <<>>
    ELSE IF Head(l) = x THEN Tail(l)
    ELSE <<Head(l)>> \o RemoveFirst(Tail(l), x)

\* The toggle without its first branch: x is appended every time.
ToggleMember_only_adds(l, x) ==
    Append(l, x)

\* `if x in l: l.remove(x) else: l.append(x)`
ToggleMember(l, x) ==
    IF x \in Range(l) THEN RemoveFirst(l, x) ELSE Append(l, x)

(***************************************************************************)
(* keyboards.py                                                            *)
(***************************************************************************)
\* A checkbox row is modelled by its glyphs: TRUE for a ticked box.
\* toggle_checkmark without its first branch: every box becomes ticked.
toggle_checkmark_only_ticks(ticked) ==
    TRUE

\* toggle_checkmark: a ticked box becomes unticked, any other becomes ticked.
toggle_checkmark(ticked) ==
    IF ticked THEN FALSE ELSE TRUE

new_symptom_choices == <<FALSE, FALSE, FALSE>>
new_assistance_choices == <<FALSE, FALSE, FALSE>>

SymptomToggles == {"symptom_fever", "symptom_cough", "symptom_heavybreathing"}
SymptomTerminals == {"symptom_none", "symptom_next", "symptom_noidea"}
AssistToggles == {"assist_transport", "assist_delivery", "assist_phone"}

update_dynamic_keyboard_symptom(keyboard, symptom) ==
    IF symptom = "symptom_fever"
    THEN [keyboard EXCEPT ![1] = toggle_checkmark(@)]
    ELSE IF symptom = "symptom_cough"
    THEN [keyboard EXCEPT ![2] = toggle_checkmark(@)]
    ELSE IF symptom = "symptom_heavybreathing"
    THEN [keyboard EXCEPT ![3] = toggle_checkmark(@)]
    ELSE keyboard

update_dynamic_keyboard_assistance(keyboard, assistance) ==
    IF assistance = "assist_transport"
    THEN [keyboard EXCEPT ![1] = toggle_checkmark(@)]
    ELSE IF assistance = "assist_delivery"
    THEN [keyboard EXCEPT ![2] = toggle_checkmark(@)]
    ELSE IF assistance = "assist_phone"
    THEN [keyboard EXCEPT ![3] = toggle_checkmark(@)]
    ELSE keyboard

(***************************************************************************)
(* The store                                                               *)
(***************************************************************************)
\* dispatcher.user_data is a defaultdict(dict): a user no handler has touched
\* reads as an empty dict.
FreshUser ==
    [state |-> NoKey, current_request |-> NoKey, reviewed_request |-> NoKey,
     symptom_keyboard |-> Absent, assist_keyboard |-> Absent]

\* The dict a new-request notification brings: the backend's snapshot, with
\* none of the keys the conversation adds later.
NewRequestData(vols) ==
    [volunteers |-> vols, time |-> Absent, amount |-> NoKey,
     further_comments |-> NoKey, symptoms |-> Absent, wellbeing |-> Absent,
     would_return |-> Absent]

NoSent == [c \in Users |-> <<>>]
NoEdit == [c \in Users |-> Absent]

\* The world a handler starts in: the current store and empty outputs;
\* `saved` is what the handler's last update_persistence() handed over.
World ==
    [ud |-> user_data, bd |-> bot_data, reg |-> registrations,
     known |-> known, persisted |-> persisted, shown |-> shown,
     sent |-> NoSent, edited |-> NoEdit, calls |-> <<>>, ok |-> TRUE,
     saved |-> Absent]

HasReq(w, r) == r \in DOMAIN w.bd

\* The keys of context.bot_data: the request ids and, once a profile has been
\* started, "registrations" (the key is never removed; it is counted here
\* only while a profile is pending).
StoreKeys(w) ==
    (DOMAIN w.bd) \cup (IF DOMAIN w.reg # {} THEN {"registrations"} ELSE {})

\* bot_data.setdefault(r, d): a request already stored is kept.
PutRequest_keeps_stored(bd, r, d) ==
    [x \in (DOMAIN bd) \cup {r} |-> IF x \in DOMAIN bd THEN bd[x] ELSE d]

PutRequest(bd, r, d) ==
    [x \in (DOMAIN bd) \cup {r} |-> IF x = r THEN d ELSE bd[x]]

DelRequest(bd, r) ==
    [x \in (DOMAIN bd) \ {r} |-> bd[x]]

\* dispatcher.user_data[chat_id]: reading the defaultdict creates the key.
Touch(w, u) == [w EXCEPT !.known = @ \cup {u}]

\* bot.send_message / send_message / send_message_ex without an inline menu.
Send(w, u, m) == [w EXCEPT !.sent[u] = Append(@, m)]

\* bot.send_message(..., reply_markup=InlineKeyboardMarkup(menu)).
SendMenu(w, u, m, menu) ==
    [w EXCEPT !.sent[u] = Append(@, m), !.shown[u] = @ \cup {menu}]

\* bot.edit_message_reply_markup(..., reply_markup=InlineKeyboardMarkup(kb)).
EditMarkup(w, u, kb) == [w EXCEPT !.edited[u] = Some(kb)]

\* A call of the backend client.
Call(w, fn, r, arg, payload) ==
    [w EXCEPT !.calls = Append(@, [fn |-> fn, req |-> r, arg |-> arg,
                                    payload |-> payload])]

\* An exception leaves the handler: what was written before stays written.
Raise(w) == [w EXCEPT !.ok = FALSE]

\* dispatcher.update_persistence(): every key of the dispatcher's user_data is
\* handed to the persistence layer (the values are shared objects).
update_persistence(w) ==
    [w EXCEPT !.persisted = w.known,
              !.saved = Some([ud |-> w.ud, bd |-> w.bd])]

(***************************************************************************)
(* Notification handlers (the REST hooks)                                  *)
(***************************************************************************)
\* The volunteers contacted when the state of a volunteer is not looked at.
Contacted_whatever_state(w, vols) ==
    {c \in vols : c \in w.persisted}

\* The volunteers of a new request that are contacted: those the persistence
\* layer knows and that are not marked as working on a request.
Contacted(w, vols) ==
    {c \in vols : /\ c \in w.persisted
                  /\ w.ud[c].state \notin {REQUEST_IN_PROGRESS, REQUEST_ASSIGNED}}

\* hook_request_assistance storing the request as the volunteers'
\* current_request as well.
hook_request_assistance_sets_current(w, r, vols) ==
    LET targets == Contacted(w, vols)
        w1 == [w EXCEPT
                 !.ud = [c \in Users |->
                           IF c \in targets
                           THEN [w.ud[c] EXCEPT !.state = REQUEST_SENT,
                                                !.reviewed_request = r,
                                                !.current_request = r]
                           ELSE w.ud[c]],
                 !.sent = [c \in Users |->
                             IF c \in targets
                             THEN Append(w.sent[c], "MSG_REQUEST_ANNOUNCEMENT")
                             ELSE w.sent[c]]]
        w2 == [w1 EXCEPT !.bd = PutRequest(w1.bd, r, NewRequestData(vols))]
    IN  update_persistence(w2)

hook_request_assistance(w, r, vols) ==
    LET targets == Contacted(w, vols)
        w1 == [w EXCEPT
                 !.ud = [c \in Users |->
                           IF c \in targets
                           THEN [w.ud[c] EXCEPT !.state = REQUEST_SENT,
                                                !.reviewed_request = r]
                           ELSE w.ud[c]],
                 !.sent = [c \in Users |->
                             IF c \in targets
                             THEN Append(w.sent[c], "MSG_REQUEST_ANNOUNCEMENT")
                             ELSE w.sent[c]]]
        w2 == [w1 EXCEPT !.bd = PutRequest(w1.bd, r, NewRequestData(vols))]
    IN  update_persistence(w2)

\* hook_cancel_assistance that leaves the assignee's reviewed_request.
hook_cancel_assistance_keeps_reviewed(w, r, v) ==
    LET w1 == Send(w, v, "MSG_REQUEST_CANCELED")
        w2 == [Touch(w1, v) EXCEPT !.ud[v].current_request = None,
                                   !.ud[v].state = AVAILABLE]
    IN  IF ~HasReq(w2, r)
        THEN Raise(w2)
        ELSE update_persistence([w2 EXCEPT !.bd = DelRequest(w2.bd, r)])

hook_cancel_assistance(w, r, v) ==
    LET w1 == Send(w, v, "MSG_REQUEST_CANCELED")
        w2 == [Touch(w1, v) EXCEPT !.ud[v].current_request = None,
                                   !.ud[v].reviewed_request = None,
                                   !.ud[v].state = AVAILABLE]
    IN  IF ~HasReq(w2, r)
        THEN Raise(w2)                       \* del bot_data[request_id]: KeyError
        ELSE update_persistence([w2 EXCEPT !.bd = DelRequest(w2.bd, r)])

\* timetools.utc_short_to_user_short: the offer's time in the user's zone.
utc_short_to_user_short(t) == <<"user_short", t>>

\* hook_assign_assistance without `if chat_id != assignee_chat_id`: every
\* volunteer of the request is told that somebody else was assigned.
hook_assign_assistance_tells_all(w, r, v, t) ==
    IF ~HasReq(w, r)
    THEN w
    ELSE
      LET others == w.bd[r].volunteers
          w1 == [w EXCEPT !.bd[r].time = Some(utc_short_to_user_short(t))]
          w2 == [w1 EXCEPT
                   !.ud = [c \in Users |->
                             IF c \in others
                             THEN [w1.ud[c] EXCEPT !.state = AVAILABLE,
                                                   !.reviewed_request = None]
                             ELSE w1.ud[c]],
                   !.sent = [c \in Users |->
                               IF c \in others
                               THEN Append(w1.sent[c], "MSG_ANOTHER_ASSIGNEE")
                               ELSE w1.sent[c]],
                   !.known = @ \cup others]
          w3 == [Touch(w2, v) EXCEPT !.ud[v].current_request = r]
          w4 == update_persistence(w3)
      IN  SendMenu(w4, v, "MSG_CAUTION", "caution")

\* hook_assign_assistance whose `except KeyError` does not return: the
\* assignee of an unknown request is still given the request and the menu.
hook_assign_assistance_unguarded(w, r, v, t) ==
    LET others == IF HasReq(w, r) THEN w.bd[r].volunteers \ {v} ELSE {}
        w1 == IF HasReq(w, r)
              THEN [w EXCEPT !.bd[r].time = Some(utc_short_to_user_short(t))]
              ELSE w
        w2 == [w1 EXCEPT
                 !.ud = [c \in Users |->
                           IF c \in others
                           THEN [w1.ud[c] EXCEPT !.state = AVAILABLE,
                                                 !.reviewed_request = None]
                           ELSE w1.ud[c]],
                 !.sent = [c \in Users |->
                             IF c \in others
                             THEN Append(w1.sent[c], "MSG_ANOTHER_ASSIGNEE")
                             ELSE w1.sent[c]],
                 !.known = @ \cup others]
        w3 == [Touch(w2, v) EXCEPT !.ud[v].current_request = r]
        w4 == update_persistence(w3)
    IN  SendMenu(w4, v, "MSG_CAUTION", "caution")

hook_assign_assistance(w, r, v, t) ==
    IF ~HasReq(w, r)
    THEN w                                   \* except KeyError: return
    ELSE
      LET others == w.bd[r].volunteers \ {v}
          w1 == [w EXCEPT !.bd[r].time = Some(utc_short_to_user_short(t))]
          w2 == [w1 EXCEPT
                   !.ud = [c \in Users |->
                             IF c \in others
                             THEN [w1.ud[c] EXCEPT !.state = AVAILABLE,
                                                   !.reviewed_request = None]
                             ELSE w1.ud[c]],
                   !.sent = [c \in Users |->
                               IF c \in others
                               THEN Append(w1.sent[c], "MSG_ANOTHER_ASSIGNEE")
                               ELSE w1.sent[c]],
                   !.known = @ \cup others]
          w3 == [Touch(w2, v) EXCEPT !.ud[v].current_request = r]
          w4 == update_persistence(w3)
      IN  SendMenu(w4, v, "MSG_CAUTION", "caution")

(***************************************************************************)
(* Chat handlers: commands                                                 *)
(***************************************************************************)
on_bot_start(w, u) ==
    LET w1 == Send(w, u, "MSG_PHONE_QUERY")
    IN  [w1 EXCEPT !.ud[u].state = EXPECTING_PHONE_NUMBER]

on_reject(w, u) ==
    Send(w, u, "MSG_THANKS_NOTHANKS")

on_accept(w, u) ==
    SendMenu(w, u, "Alege timpul", "eta")

(***************************************************************************)
(* Chat handlers: the offer and the dispatch                               *)
(***************************************************************************)
\* response_code.split("_")[-1]: the time of an offer button.
OfferOf(code) ==
    CASE code = "eta_20:40" -> "20:40"
      [] OTHER -> code

\* negotiate_time relaying the offer for the volunteer's current_request.
negotiate_time_relays_current(w, u, code, up) ==
    IF code = "eta_never"
    THEN LET w1 == Send(w, u, "MSG_THANKS_NOTHANKS")
         IN  [w1 EXCEPT !.ud[u].reviewed_request = None,
                        !.ud[u].state = AVAILABLE]
    ELSE IF code = "eta_later"
    THEN SendMenu(w, u, "Alege timpul", "eta")
    ELSE
      LET request_id == w.ud[u].current_request
      IN  IF request_id = NoKey
          THEN Raise(w)
          ELSE
            LET w1 == Call(w, "relay_offer", request_id, OfferOf(code),
                           Some([volunteer_id |-> u]))
            IN  IF ~up THEN Raise(w1)
                ELSE Send(w1, u, "MSG_ACK_TIME")

\* `up` tells whether the backend answers the call this handler makes; when
\* it does not, the client (requests) raises and the handler ends there.
negotiate_time(w, u, code, up) ==
    IF code = "eta_never"
    THEN LET w1 == Send(w, u, "MSG_THANKS_NOTHANKS")
         IN  [w1 EXCEPT !.ud[u].reviewed_request = None,
                        !.ud[u].state = AVAILABLE]
    ELSE IF code = "eta_later"
    THEN SendMenu(w, u, "Alege timpul", "eta")
    ELSE
      LET request_id == w.ud[u].reviewed_request
      IN  IF request_id = NoKey
          THEN Raise(w)                      \* user_data["reviewed_request"]
          ELSE
            LET w1 == Call(w, "relay_offer", request_id, OfferOf(code),
                           Some([volunteer_id |-> u]))
            IN  IF ~up THEN Raise(w1)
                ELSE Send(w1, u, "MSG_ACK_TIME")

confirm_dispatch(w, u, code, up) ==
    LET request_id == w.ud[u].reviewed_request
    IN  IF request_id = NoKey \/ ~HasReq(w, request_id)
        THEN Raise(w)                        \* KeyError on either lookup
        ELSE IF code = "caution_ok"
        THEN SendMenu(w, u, "MSG_FULL_DETAILS", "handling")
        ELSE
          LET w1 == Send(w, u, "MSG_NO_WORRIES_LATER")
              w2 == [w1 EXCEPT !.ud[u].reviewed_request = None,
                               !.ud[u].state = AVAILABLE]
              w3 == Call(w2, "update_request_status", request_id,
                         "CANCELLED", Absent)
          IN  IF ~up THEN Raise(w3) ELSE w3

send_exit_survey(w, u) ==
    LET request_id == w.ud[u].current_request
    IN  IF request_id = NoKey \/ ~HasReq(w, request_id)
        THEN Raise(w)
        ELSE SendMenu(w, u, "MSG_FEEDBACK_BENEFICIARY_MOOD", "wellbeing")

confirm_handle(w, u, code, up) ==
    LET request_id == w.ud[u].reviewed_request
    IN  IF request_id = NoKey
        THEN Raise(w)                        \* user_data["reviewed_request"]
        ELSE IF code = "handle_onmyway"
        THEN LET w1 == SendMenu(w, u, "MSG_SAFETY_INSTRUCTIONS", "inprogress")
                 w2 == Call(w1, "update_request_status", request_id,
                            "onprogress", Absent)
             IN  IF ~up THEN Raise(w2) ELSE w2
        ELSE IF code = "handle_done"
        THEN LET w1 == Send(w, u, "MSG_THANKS_FEEDBACK")
                 w2 == SendMenu(w1, u, "MSG_FEEDBACK_EXPENSES", "endgame")
                 w3 == [w2 EXCEPT !.ud[u].state = EXPECTING_AMOUNT]
                 w4 == Call(w3, "update_request_status", request_id,
                            "done", Absent)
             IN  IF ~up THEN Raise(w4) ELSE w4
        ELSE IF code = "handle_no_expenses"
        THEN LET w1 == send_exit_survey(w, u)
             IN  IF ~w1.ok THEN w1
                 ELSE [w1 EXCEPT !.ud[u].state = EXPECTING_EXIT_SURVEY]
        ELSE IF code = "handle_cancel"
        THEN LET w1 == Send(w, u, "MSG_NO_WORRIES_LATER")
                 w2 == [w1 EXCEPT !.ud[u].reviewed_request = None,
                                  !.ud[u].state = AVAILABLE]
                 w3 == Call(w2, "update_request_status", request_id,
                            "cancelled", Absent)
             IN  IF ~up THEN Raise(w3) ELSE w3
        ELSE w

RECURSIVE Uploads(_, _, _)
\* for entry in update.message.photo: backend.upload_shopping_receipt(...)
Uploads(w, request_id, n) ==
    IF n = 0 THEN w
    ELSE Uploads(Call(w, "upload_shopping_receipt", request_id, "photo", Absent),
                 request_id, n - 1)

\* on_photo: a message with `n` photos.
on_photo(w, u, n, up) ==
    IF w.ud[u].state = NoKey
    THEN Raise(w)                            \* user_data["state"]
    ELSE IF w.ud[u].state # EXPECTING_RECEIPT
    THEN w
    ELSE IF w.ud[u].current_request = NoKey
    THEN Raise(w)                            \* user_data["current_request"]
    ELSE IF ~up
    THEN Raise(Uploads(w, w.ud[u].current_request, 1))
    ELSE
      LET w1 == Uploads(w, w.ud[u].current_request, n)
          w2 == send_exit_survey(w1, u)
      IN  IF ~w2.ok THEN w2
          ELSE [w2 EXCEPT !.ud[u].state = EXPECTING_EXIT_SURVEY]

(***************************************************************************)
(* Chat handlers: the exit survey                                          *)
(***************************************************************************)
confirm_wellbeing(w, u, score) ==
    LET request_id == w.ud[u].current_request
    IN  IF request_id = NoKey \/ ~HasReq(w, request_id)
        THEN Raise(w)
        ELSE
          LET w1 == [w EXCEPT !.bd[request_id].wellbeing = Some(score)]
          IN  SendMenu(w1, u, "MSG_SYMPTOMS", "symptom")

\* confirm_symptom clearing the symptoms on "continue" as well.
confirm_symptom_always_clears(w, u, code) ==
    LET request_id == w.ud[u].current_request
    IN  IF request_id = NoKey
        THEN Raise(w)
        ELSE IF code \in SymptomTerminals
        THEN
          IF ~HasReq(w, request_id)
          THEN Raise(w)
          ELSE
            LET w1 == SendMenu(w, u, "MSG_WOULD_YOU_DO_THIS_AGAIN", "wouldyou")
                w2 == [w1 EXCEPT !.ud[u].symptom_keyboard = Absent]
            IN  [w2 EXCEPT !.bd[request_id].symptoms = Some(<<>>)]
        ELSE
          LET previous_keyboard ==
                IF w.ud[u].symptom_keyboard = Absent
                THEN new_symptom_choices
                ELSE Get(w.ud[u].symptom_keyboard)
              updated_keyboard ==
                update_dynamic_keyboard_symptom(previous_keyboard, code)
              w1 == [w EXCEPT !.ud[u].symptom_keyboard = Some(updated_keyboard)]
              w2 == EditMarkup(w1, u, updated_keyboard)
          IN  IF ~HasReq(w2, request_id)
              THEN Raise(w2)
              ELSE IF w2.bd[request_id].symptoms = Absent
              THEN [w2 EXCEPT !.bd[request_id].symptoms = Some(<<code>>)]
              ELSE [w2 EXCEPT !.bd[request_id].symptoms =
                                 Some(ToggleMember(Get(@), code))]

confirm_symptom(w, u, code) ==
    LET request_id == w.ud[u].current_request
    IN  IF request_id = NoKey
        THEN Raise(w)                        \* user_data["current_request"]
        ELSE IF code \in SymptomTerminals
        THEN
          IF ~HasReq(w, request_id)
          THEN Raise(w)                      \* bot_data[request_id]["beneficiary"]
          ELSE
            LET w1 == SendMenu(w, u, "MSG_WOULD_YOU_DO_THIS_AGAIN", "wouldyou")
                w2 == [w1 EXCEPT !.ud[u].symptom_keyboard = Absent]
            IN  IF code \in {"symptom_none", "symptom_noidea"}
                THEN [w2 EXCEPT !.bd[request_id].symptoms = Some(<<>>)]
                ELSE w2
        ELSE
          LET previous_keyboard ==
                IF w.ud[u].symptom_keyboard = Absent
                THEN new_symptom_choices
                ELSE Get(w.ud[u].symptom_keyboard)
              updated_keyboard ==
                update_dynamic_keyboard_symptom(previous_keyboard, code)
              w1 == [w EXCEPT !.ud[u].symptom_keyboard = Some(updated_keyboard)]
              w2 == EditMarkup(w1, u, updated_keyboard)
          IN  IF ~HasReq(w2, request_id)
              THEN Raise(w2)                 \* bot_data[request_id]
              ELSE IF w2.bd[request_id].symptoms = Absent
              THEN [w2 EXCEPT !.bd[request_id].symptoms = Some(<<code>>)]
              ELSE [w2 EXCEPT !.bd[request_id].symptoms =
                                 Some(ToggleMember(Get(@), code))]

confirm_wouldyou(w, u, code) ==
    LET request_id == w.ud[u].current_request
    IN  IF request_id = NoKey \/ ~HasReq(w, request_id)
        THEN Raise(w)
        ELSE
          LET w1 == [w EXCEPT !.bd[request_id].would_return =
                                 Some(code = "wouldyou_yes")]
              w2 == SendMenu(w1, u, "MSG_FEEDBACK_FURTHER_COMMENTS", "further")
          IN  [w2 EXCEPT !.ud[u].state = EXPECTING_FURTHER_COMMENTS]

\* The payload with the amount, the comments and the symptoms of the
\* request's dict read by subscript, as the wellbeing is.
request_payload_no_defaults(d) ==
    [amount |-> d.amount,
     further_comments |-> d.further_comments,
     symptoms |-> IF d.symptoms = Absent THEN <<>> ELSE Get(d.symptoms),
     wellbeing |-> Get(d.wellbeing),
     would_return |-> Get(d.would_return)]

\* The payload finalize_request builds from the request's dict.
request_payload(d) ==
    [amount |-> IF d.amount = NoKey THEN "0" ELSE d.amount,
     further_comments |-> IF d.further_comments = NoKey THEN ""
                          ELSE d.further_comments,
     symptoms |-> IF d.symptoms = Absent THEN <<>> ELSE Get(d.symptoms),
     wellbeing |-> Get(d.wellbeing),
     would_return |-> Get(d.would_return)]

\* finalize_request without `del self.updater.dispatcher.bot_data[request_id]`.
finalize_request_keeps_request(w, u, request_id, up) ==
    LET w1 == Send(w, u, "MSG_THANKS_FINAL")
    IN  IF ~HasReq(w1, request_id)
        THEN Raise(w1)
        ELSE IF w1.bd[request_id].wellbeing = Absent
                \/ w1.bd[request_id].would_return = Absent
        THEN Raise(w1)
        ELSE
          LET w2 == Call(w1, "send_request_result", request_id, "result",
                         Some(request_payload(w1.bd[request_id])))
          IN  IF ~up THEN Raise(w2)
              ELSE
                LET w3 == [w2 EXCEPT !.ud[u].state = AVAILABLE,
                                     !.ud[u].current_request = None,
                                     !.ud[u].reviewed_request = None,
                                     !.ud[u].symptom_keyboard = Absent]
                IN  Send(w3, u, "THANKS_GIF")

\* finalize_request without `context.user_data["reviewed_request"] = None`.
finalize_request_keeps_reviewed(w, u, request_id, up) ==
    LET w1 == Send(w, u, "MSG_THANKS_FINAL")
    IN  IF ~HasReq(w1, request_id)
        THEN Raise(w1)
        ELSE IF w1.bd[request_id].wellbeing = Absent
                \/ w1.bd[request_id].would_return = Absent
        THEN Raise(w1)
        ELSE
          LET w2 == Call(w1, "send_request_result", request_id, "result",
                         Some(request_payload(w1.bd[request_id])))
          IN  IF ~up THEN Raise(w2)
              ELSE
                LET w3 == [w2 EXCEPT !.ud[u].state = AVAILABLE,
                                     !.ud[u].current_request = None,
                                     !.ud[u].symptom_keyboard = Absent,
                                     !.bd = DelRequest(w2.bd, request_id)]
                IN  Send(w3, u, "THANKS_GIF")

finalize_request(w, u, request_id, up) ==
    LET w1 == Send(w, u, "MSG_THANKS_FINAL")
    IN  IF ~HasReq(w1, request_id)
        THEN Raise(w1)                       \* bot_data[request_id]
        ELSE IF w1.bd[request_id].wellbeing = Absent
                \/ w1.bd[request_id].would_return = Absent
        THEN Raise(w1)                       \* ["wellbeing"], ["would_return"]
        ELSE
          LET w2 == Call(w1, "send_request_result", request_id, "result",
                         Some(request_payload(w1.bd[request_id])))
          IN  IF ~up THEN Raise(w2)
              ELSE
                LET w3 == [w2 EXCEPT !.ud[u].state = AVAILABLE,
                                     !.ud[u].current_request = None,
                                     !.ud[u].reviewed_request = None,
                                     !.ud[u].symptom_keyboard = Absent,
                                     !.bd = DelRequest(w2.bd, request_id)]
                IN  Send(w3, u, "THANKS_GIF")

confirm_further(w, u, up) ==
    IF w.ud[u].current_request = NoKey
    THEN Raise(w)                            \* user_data["current_request"]
    ELSE finalize_request(w, u, w.ud[u].current_request, up)

(***************************************************************************)
(* Chat handlers: onboarding                                               *)
(***************************************************************************)
\* The profile is an OrderedDict: these are its keys in insertion order (the
\* last two are added only for a foreign phone and before the registration).
ProfileOrder ==
    <<"first_name", "last_name", "availability", "activities", "phone",
      "email", "phone_foreign", "chat_id">>

NewProfile(first_name, last_name, phone) ==
    [first_name |-> first_name, last_name |-> last_name,
     availability |-> None, activities |-> [tag |-> "list", items |-> <<>>],
     phone |-> phone, email |-> None, phone_foreign |-> NoKey,
     chat_id |-> NoKey]

\* Phone numbers a contact card may hold, and phone.startswith(c.LOCAL_PREFIX).
LocalPhones == {"+373-1"}
ForeignPhones == {"+45-1"}
Phones == LocalPhones \cup ForeignPhones
\* Every number taken for a local one.
startswith_anything(phone) == TRUE

startswith_LOCAL_PREFIX(phone) == phone \in LocalPhones

\* `not value` for the value under `key`.
IsEmpty(profile, key) ==
    IF key = "activities"
    THEN profile.activities.items = <<>>
    ELSE profile[key] = None

\* The fields without a value, last declared first.
Unanswered_last_first(profile) ==
    LET Test(key) == IsEmpty(profile, key)
        found == SelectSeq(ProfileOrder, Test)
    IN  [i \in 1 .. Len(found) |-> found[Len(found) + 1 - i]]

\* `for key, value in profile.items(): if not value`: the fields without a
\* value, in the order of the OrderedDict.
Unanswered(profile) ==
    LET Test(key) == IsEmpty(profile, key)
    IN  SelectSeq(ProfileOrder, Test)

\* profile[key] = raw_text
SetField(profile, key, raw_text) ==
    IF key = "activities"
    THEN [profile EXCEPT !.activities = [tag |-> "str", items |-> <<raw_text>>]]
    ELSE [profile EXCEPT ![key] = raw_text]

\* c.PROFILE_QUESTIONS[key]
Question(key) ==
    CASE key = "first_name" -> "PROFILE_QUESTIONS[first_name]"
      [] key = "last_name" -> "PROFILE_QUESTIONS[last_name]"
      [] key = "availability" -> "PROFILE_QUESTIONS[availability]"
      [] key = "activities" -> "PROFILE_QUESTIONS[activities]"
      [] key = "phone" -> "PROFILE_QUESTIONS[phone]"
      [] key = "email" -> "PROFILE_QUESTIONS[email]"
      [] OTHER -> "PROFILE_QUESTIONS[other]"

PutReg(reg, u, p) ==
    [x \in (DOMAIN reg) \cup {u} |-> IF x = u THEN p ELSE reg[x]]

DelReg(reg, u) ==
    [x \in (DOMAIN reg) \ {u} |-> reg[x]]

\* build_profile: `phone` is None but on the call from on_contact, `raw_text`
\* is None but on the call from on_text_message; first_name and last_name are
\* those of the Telegram user.
build_profile(w, u, phone, raw_text, first_name, last_name, up) ==
    IF u \notin DOMAIN w.reg /\ phone = None
    THEN Raise(w)                            \* None.startswith
    ELSE
      LET created ==
            IF startswith_LOCAL_PREFIX(phone)
            THEN NewProfile(first_name, last_name, phone)
            ELSE [NewProfile(first_name, last_name, None)
                    EXCEPT !.phone_foreign = phone]
          profile0 == IF u \in DOMAIN w.reg THEN w.reg[u] ELSE created
          fills == raw_text # None /\ Unanswered(profile0) # <<>>
          profile1 == IF fills
                      THEN SetField(profile0, Head(Unanswered(profile0)), raw_text)
                      ELSE profile0
          w1 == [w EXCEPT !.reg = PutReg(w.reg, u, profile1)]
      IN  IF Unanswered(profile1) # <<>>
          THEN
            LET key == Head(Unanswered(profile1))
                w2 == [w1 EXCEPT !.ud[u].state = EXPECTING_PROFILE_DETAILS]
                w3 == Send(w2, u, Question(key))
            IN  IF key = "activities"
                THEN SendMenu(w3, u, "MSG_ONBOARD_ACTIVITIES_NUDGE", "assist")
                ELSE w3
          ELSE
            LET w2 == Send(w1, u, "MSG_ONBOARD_NEXT_STEPS")
                w3 == [w2 EXCEPT !.reg[u].chat_id = u]
                w4 == Call(w3, "register_pending_volunteer", None, u,
                           Some(w3.reg[u]))
            IN  IF ~up THEN Raise(w4)
                ELSE [w4 EXCEPT !.ud[u].state = AVAILABLE,
                                !.reg = DelReg(w4.reg, u),
                                !.ud[u].assist_keyboard = Absent]

\* `"exists" in response`: `in` on a requests.Response iterates the body in
\* chunks of bytes, and no chunk of bytes equals the str "exists".
exists_in_response == FALSE

\* Backender.link_chatid_to_volunteer, given the "exists" of the backend's answer.
link_chatid_to_volunteer(exists) ==
    IF exists_in_response THEN exists ELSE FALSE

on_contact(w, u, phone, first_name, last_name, exists, up) ==
    LET w1 == Call(w, "link_chatid_to_volunteer", None, phone, Absent)
    IN  IF ~up
        THEN Raise(w1)                       \* _get: ValueError("Bad response")
        ELSE IF link_chatid_to_volunteer(exists)
        THEN Send([w1 EXCEPT !.ud[u].state = AVAILABLE], u, "MSG_STANDBY")
        ELSE build_profile(w1, u, phone, None, first_name, last_name, up)

confirm_activities(w, u, code, up) ==
    IF u \notin DOMAIN w.reg
    THEN Raise(w)                            \* bot_data["registrations"][chat_id]
    ELSE
      LET activities == w.reg[u].activities
      IN  IF code = "assist_next"
          THEN IF activities.items = <<>>
               THEN Send(w, u, "MSG_ONBOARD_ACTIVITIES_NUDGE")
               ELSE build_profile(w, u, None, None, None, None, up)
          ELSE IF activities.tag = "str"
          THEN Raise(w)                      \* str has no append / remove
          ELSE
            LET w1 == [w EXCEPT !.reg[u].activities.items =
                                   ToggleMember(@, code)]
                previous_keyboard ==
                  IF w.ud[u].assist_keyboard = Absent
                  THEN new_assistance_choices
                  ELSE Get(w.ud[u].assist_keyboard)
                updated_keyboard ==
                  update_dynamic_keyboard_assistance(previous_keyboard, code)
                w2 == [w1 EXCEPT !.ud[u].assist_keyboard = Some(updated_keyboard)]
            IN  EditMarkup(w2, u, updated_keyboard)

on_text_message(w, u, text, up) ==
    IF w.ud[u].state = NoKey
    THEN Raise(w)                            \* user_data["state"]
    ELSE IF w.ud[u].state = EXPECTING_AMOUNT
    THEN
      LET request_id == w.ud[u].current_request
      IN  IF request_id = NoKey \/ ~HasReq(w, request_id)
          THEN Raise(w)
          ELSE
            LET w1 == [w EXCEPT !.bd[request_id].amount = text]
                w2 == Send(w1, u, "MSG_FEEDBACK_RECEIPT")
            IN  [w2 EXCEPT !.ud[u].state = EXPECTING_RECEIPT]
    ELSE IF w.ud[u].state = EXPECTING_FURTHER_COMMENTS
    THEN
      LET request_id == w.ud[u].current_request
      IN  IF request_id = NoKey \/ ~HasReq(w, request_id)
          THEN Raise(w)
          ELSE finalize_request(
                 [w EXCEPT !.bd[request_id].further_comments = text],
                 u, request_id, up)
    ELSE IF w.ud[u].state = EXPECTING_PROFILE_DETAILS
    THEN build_profile(w, u, None, text, None, None, up)
    ELSE w

(***************************************************************************)
(* The state machine                                                       *)
(***************************************************************************)
\* No notification handler is running on a worker thread.
Idle ==
    [pc |-> "idle", kind |-> "none", r |-> None, v |-> None, vols |-> {},
     t |-> None, todo |-> {}, cur |-> None, failed |-> FALSE,
     start |-> Absent, mid |-> <<>>, midok |-> TRUE]

NoRequests == [x \in {} |-> NewRequestData({})]
NoRegistrations == [x \in {} |-> NewProfile(None, None, None)]

\* Ajubot.__init__ and serve(): an empty store, nobody known, no menu sent.
Init ==
    /\ user_data = [c \in Users |-> FreshUser]
    /\ bot_data = NoRequests
    /\ registrations = NoRegistrations
    /\ known = {}
    /\ persisted = {}
    /\ shown = [c \in Users |-> {}]
    /\ worker = Idle

\* The store a handler leaves becomes the state.
Store(w) ==
    /\ user_data' = w.ud
    /\ bot_data' = w.bd
    /\ registrations' = w.reg
    /\ known' = w.known
    /\ persisted' = w.persisted
    /\ shown' = w.shown

\* A handler that runs from its first statement to its last with no other
\* thread in between.
Commit(w) ==
    /\ Store(w)
    /\ UNCHANGED worker

\* The dispatcher hands a chat update of user u to a handler: context.user_data
\* is dispatcher.user_data[chat_id].
Incoming(u) == Touch(World, u)

\* Dispatcher.process_update: update_persistence() runs after a handler that
\* returned, and is skipped when the handler raised.
Handled(w) == IF w.ok THEN update_persistence(w) ELSE w

\* The scores of the wellbeing menu (state_0 .. state_4).
Scores == 0 .. 4

\* The most photos one message carries.
MaxPhotos == 2

\* The menu each callback button belongs to.
MenuOfButton(code) ==
    CASE code \in {"eta_never", "eta_later", "eta_20:40"} -> "eta"
      [] code \in {"caution_ok", "caution_cancel"} -> "caution"
      [] code = "handle_onmyway" -> "handling"
      [] code = "handle_done" -> "inprogress"
      [] code = "handle_no_expenses" -> "endgame"
      [] code \in SymptomToggles \cup SymptomTerminals -> "symptom"
      [] code \in {"wouldyou_yes", "wouldyou_no"} -> "wouldyou"
      [] code = "furthercomments_no" -> "further"
      [] code \in AssistToggles \cup {"assist_next"} -> "assist"
      [] OTHER -> "none"

\* A button can be pressed when a message of the chat carries it;
\* handle_cancel is on the handling menu and on the in-progress menu.
OnScreen(u, code) ==
    IF code = "handle_cancel"
    THEN shown[u] \cap {"handling", "inprogress"} # {}
    ELSE MenuOfButton(code) \in shown[u]

OnBotStart(u) ==
    /\ u \in Users
    /\ Commit(Handled(on_bot_start(Incoming(u), u)))

OnAccept(u) ==
    /\ u \in Users
    /\ Commit(Handled(on_accept(Incoming(u), u)))

OnReject(u) ==
    /\ u \in Users
    /\ Commit(Handled(on_reject(Incoming(u), u)))

NegotiateTime(u, code, up) ==
    /\ OnScreen(u, code)
    /\ Commit(Handled(negotiate_time(Incoming(u), u, code, up)))

ConfirmDispatch(u, code, up) ==
    /\ OnScreen(u, code)
    /\ Commit(Handled(confirm_dispatch(Incoming(u), u, code, up)))

ConfirmHandle(u, code, up) ==
    /\ OnScreen(u, code)
    /\ Commit(Handled(confirm_handle(Incoming(u), u, code, up)))

OnTextMessage(u, text, up) ==
    /\ u \in Users
    /\ Commit(Handled(on_text_message(Incoming(u), u, text, up)))

OnPhoto(u, n, up) ==
    /\ n \in 1 .. MaxPhotos
    /\ Commit(Handled(on_photo(Incoming(u), u, n, up)))

ConfirmWellbeing(u, score) ==
    /\ score \in Scores
    /\ "wellbeing" \in shown[u]
    /\ Commit(Handled(confirm_wellbeing(Incoming(u), u, score)))

ConfirmSymptom(u, code) ==
    /\ OnScreen(u, code)
    /\ Commit(Handled(confirm_symptom(Incoming(u), u, code)))

ConfirmWouldyou(u, code) ==
    /\ OnScreen(u, code)
    /\ Commit(Handled(confirm_wouldyou(Incoming(u), u, code)))

ConfirmFurther(u, up) ==
    /\ OnScreen(u, "furthercomments_no")
    /\ Commit(Handled(confirm_further(Incoming(u), u, up)))

OnContact(u, phone, first_name, last_name, exists, up) ==
    /\ phone \in Phones
    /\ Commit(Handled(on_contact(Incoming(u), u, phone, first_name, last_name,
                                 exists, up)))

ConfirmActivities(u, code, up) ==
    /\ OnScreen(u, code)
    /\ Commit(Handled(confirm_activities(Incoming(u), u, code, up)))

\* The REST hooks run outside the dispatcher: they persist by themselves.
HookRequestAssistance(r, vols) ==
    /\ vols \subseteq Users
    /\ Commit(hook_request_assistance(World, r, vols))

HookAssignAssistance(r, v, t) ==
    /\ v \in Users
    /\ Commit(hook_assign_assistance(World, r, v, t))

HookCancelAssistance(r, v) ==
    /\ v \in Users
    /\ Commit(hook_cancel_assistance(World, r, v))

(***************************************************************************)
(* Inputs                                                                  *)
(***************************************************************************)
Texts == {"t1", "t2"}
Offers == {"eta_20:40"}
Times == {"20:40"}
FirstNames == {None, "Ion"}
LastNames == {None, "Rusu"}
Volunteers(US) == (SUBSET US) \ {{}}

\* The commands and the offer buttons, for the users US.
ChatOffer(US, UPS) ==
    \E u \in US :
        \/ OnBotStart(u)
        \/ OnAccept(u)
        \/ OnReject(u)
        \/ \E code \in {"eta_never", "eta_later"} \cup Offers, up \in UPS :
               NegotiateTime(u, code, up)

\* The buttons of the health-caution, handling and in-progress menus.
ChatDispatch(US, HC, UPS) ==
    \E u \in US, up \in UPS :
        \/ \E code \in {"caution_ok", "caution_cancel"} :
               ConfirmDispatch(u, code, up)
        \/ \E code \in HC : ConfirmHandle(u, code, up)

\* The expenses and the exit survey.
ChatSurvey(US, TX, PH, SC, SY, WY, UPS) ==
    \E u \in US, up \in UPS :
        \/ \E text \in TX : OnTextMessage(u, text, up)
        \/ \E n \in PH : OnPhoto(u, n, up)
        \/ \E score \in SC : ConfirmWellbeing(u, score)
        \/ \E code \in SY : ConfirmSymptom(u, code)
        \/ \E code \in WY : ConfirmWouldyou(u, code)
        \/ ConfirmFurther(u, up)

\* The onboarding.
ChatProfile(US, PN, TX, AC, UPS) ==
    \E u \in US, up \in UPS :
        \/ \E phone \in PN, first_name \in FirstNames, last_name \in LastNames,
              exists \in BOOLEAN :
               OnContact(u, phone, first_name, last_name, exists, up)
        \/ \E code \in AC : ConfirmActivities(u, code, up)
        \/ \E text \in TX : OnTextMessage(u, text, up)

\* The backend's notifications about the requests RS to the users US.
Hooks(US, RS) ==
    \E r \in RS :
        \/ \E vols \in Volunteers(US) : HookRequestAssistance(r, vols)
        \/ \E v \in US, t \in Times : HookAssignAssistance(r, v, t)
        \/ \E v \in US : HookCancelAssistance(r, v)

AllHandle == {"handle_onmyway", "handle_done", "handle_no_expenses", "handle_cancel"}

\* Two volunteers and one request: the offer, the assignment and the dispatch.
Next ==
    \/ ChatOffer(Users, BOOLEAN)
    \/ ChatDispatch(Users, AllHandle, BOOLEAN)
    \/ Hooks(Users, {"R1"})

Spec == Init /\ [][Next]_vars

\* One volunteer and one request, from the announcement to the end of the
\* exit survey.
SurveyUsers == {"A"}
SurveyTexts == {"t1"}
SurveyScores == {0, 4}
AllSymptom == SymptomToggles \cup SymptomTerminals

NextSurvey ==
    \/ ChatOffer(SurveyUsers, BOOLEAN)
    \/ ChatDispatch(SurveyUsers, AllHandle, BOOLEAN)
    \/ ChatSurvey(SurveyUsers, SurveyTexts, 1 .. MaxPhotos, SurveyScores,
                  AllSymptom, {"wouldyou_yes", "wouldyou_no"}, BOOLEAN)
    \/ Hooks(SurveyUsers, {"R1"})

SpecSurvey == Init /\ [][NextSurvey]_vars

\* One volunteer who ticks activities while onboarding and symptoms in the
\* exit survey of one request.
NextToggle ==
    \E u \in {"A"} :
        \/ \E phone \in LocalPhones : OnContact(u, phone, "Ion", "Rusu", FALSE, TRUE)
        \/ \E text \in {"t1"} : OnTextMessage(u, text, TRUE)
        \/ \E code \in AssistToggles \cup {"assist_next"} :
               ConfirmActivities(u, code, TRUE)
        \/ HookRequestAssistance("R1", {u})
        \/ \E t \in Times : HookAssignAssistance("R1", u, t)
        \/ ConfirmDispatch(u, "caution_ok", TRUE)
        \/ \E code \in {"handle_onmyway", "handle_done", "handle_no_expenses"} :
               ConfirmHandle(u, code, TRUE)
        \/ \E score \in {4} : ConfirmWellbeing(u, score)
        \/ \E code \in SymptomToggles \cup {"symptom_next", "symptom_none"} :
               ConfirmSymptom(u, code)

SpecToggle == Init /\ [][NextToggle]_vars

\* One user who starts the bot, shares a contact and answers the profile's
\* questions.
AllAssist == AssistToggles \cup {"assist_next"}

NextProfile ==
    \/ \E u \in {"A"} : OnBotStart(u)
    \/ ChatProfile({"A"}, Phones, Texts, AllAssist, BOOLEAN)

SpecProfile == Init /\ [][NextProfile]_vars

\* One volunteer and two requests: a request is announced while another one
\* is being fulfilled.
NextTwo ==
    \/ ChatOffer({"A"}, BOOLEAN)
    \/ ChatDispatch({"A"}, AllHandle, BOOLEAN)
    \/ Hooks({"A"}, Requests)

SpecTwo == Init /\ [][NextTwo]_vars

\* One request from its announcement to its finalization: the volunteers
\* start the bot, the request is announced, a volunteer offers a time and is
\* assigned, and the assignee answers the prompt that was sent last; the
\* backend answers every call and sends no cancel.  The backend may send a
\* second new-request notification or an assign notification naming somebody
\* else while the request is being fulfilled.
FlowRequest == "R1"

\* The prompt user u was sent last for the request: each handler of the flow
\* sends the next menu or question and some of them set the state.
FlowPrompt(u) ==
    LET d == user_data[u]
        menus == shown[u]
    IN  IF ~HasReq(World, FlowRequest) \/ d.current_request # FlowRequest
        THEN "none"
        ELSE IF bot_data[FlowRequest].time = Absent
                \/ d.reviewed_request # FlowRequest
        THEN "none"                          \* the last message is no prompt
        ELSE IF d.state = EXPECTING_FURTHER_COMMENTS THEN "further"
        ELSE IF d.state = EXPECTING_EXIT_SURVEY
        THEN IF "wouldyou" \in menus THEN "wouldyou"
             ELSE IF "symptom" \in menus THEN "symptom"
             ELSE "wellbeing"
        ELSE IF d.state = EXPECTING_RECEIPT THEN "receipt"
        ELSE IF d.state = EXPECTING_AMOUNT THEN "endgame"
        ELSE IF "inprogress" \in menus THEN "inprogress"
        ELSE IF "handling" \in menus THEN "handling"
        ELSE "caution"

\* The request was announced to u and nobody is assigned yet.
FlowOffered(u) ==
    /\ HasReq(World, FlowRequest)
    /\ bot_data[FlowRequest].time = Absent
    /\ user_data[u].reviewed_request = FlowRequest
    /\ user_data[u].state = REQUEST_SENT

FlowStart(u) ==
    /\ user_data[u].state = NoKey
    /\ ~HasReq(World, FlowRequest)
    /\ OnBotStart(u)

FlowAnnounce(vols) ==
    /\ ~HasReq(World, FlowRequest)
    /\ vols \subseteq persisted
    /\ \A u \in Users : shown[u] = {}
    /\ HookRequestAssistance(FlowRequest, vols)

FlowAccept(u) ==
    /\ FlowOffered(u)
    /\ "eta" \notin shown[u]
    /\ OnAccept(u)

FlowOffer(u, code) ==
    /\ FlowOffered(u)
    /\ NegotiateTime(u, code, TRUE)

FlowAssign(v, t) ==
    /\ FlowOffered(v)
    /\ "eta" \in shown[v]
    /\ \A u \in Users : user_data[u].current_request # FlowRequest
    /\ HookAssignAssistance(FlowRequest, v, t)

\* A second new-request notification for the request, after its assignment.
FlowReannounce(vols) ==
    /\ HasReq(World, FlowRequest)
    /\ bot_data[FlowRequest].time # Absent
    /\ vols \subseteq persisted
    /\ HookRequestAssistance(FlowRequest, vols)

\* An assign notification naming v while somebody else fulfils the request.
FlowReassign(v, t) ==
    /\ HasReq(World, FlowRequest)
    /\ bot_data[FlowRequest].time # Absent
    /\ user_data[v].current_request # FlowRequest
    /\ \E a \in Users \ {v} : /\ user_data[a].current_request = FlowRequest
                              /\ user_data[a].reviewed_request = FlowRequest
    /\ HookAssignAssistance(FlowRequest, v, t)

FlowHealthOk(u) ==
    /\ FlowPrompt(u) = "caution"
    /\ ConfirmDispatch(u, "caution_ok", TRUE)

FlowOnMyWay(u) ==
    /\ FlowPrompt(u) = "handling"
    /\ ConfirmHandle(u, "handle_onmyway", TRUE)

FlowDone(u) ==
    /\ FlowPrompt(u) = "inprogress"
    /\ ConfirmHandle(u, "handle_done", TRUE)

FlowNoExpenses(u) ==
    /\ FlowPrompt(u) = "endgame"
    /\ ConfirmHandle(u, "handle_no_expenses", TRUE)

FlowAmount(u, text) ==
    /\ FlowPrompt(u) = "endgame"
    /\ OnTextMessage(u, text, TRUE)

FlowReceipt(u, n) ==
    /\ FlowPrompt(u) = "receipt"
    /\ OnPhoto(u, n, TRUE)

FlowWellbeing(u, score) ==
    /\ FlowPrompt(u) = "wellbeing"
    /\ ConfirmWellbeing(u, score)

FlowSymptomTick(u, code) ==
    /\ FlowPrompt(u) = "symptom"
    /\ code \in SymptomToggles
    /\ ConfirmSymptom(u, code)

FlowSymptomEnd(u, code) ==
    /\ FlowPrompt(u) = "symptom"
    /\ code \in SymptomTerminals
    /\ ConfirmSymptom(u, code)

FlowWouldYou(u, code) ==
    /\ FlowPrompt(u) = "wouldyou"
    /\ ConfirmWouldyou(u, code)

FlowComment(u, text) ==
    /\ FlowPrompt(u) = "further"
    /\ OnTextMessage(u, text, TRUE)

FlowNoComment(u) ==
    /\ FlowPrompt(u) = "further"
    /\ ConfirmFurther(u, TRUE)

\* An answer of the assignee that ends the pending prompt (a tick on the
\* symptom menu does not end it).
FlowAnswer ==
    \E u \in Users :
        \/ FlowHealthOk(u)
        \/ FlowOnMyWay(u)
        \/ FlowDone(u)
        \/ FlowNoExpenses(u)
        \/ \E text \in SurveyTexts : FlowAmount(u, text)
        \/ \E n \in 1 .. MaxPhotos : FlowReceipt(u, n)
        \/ \E score \in SurveyScores : FlowWellbeing(u, score)
        \/ \E code \in SymptomTerminals : FlowSymptomEnd(u, code)
        \/ \E code \in {"wouldyou_yes", "wouldyou_no"} : FlowWouldYou(u, code)
        \/ \E text \in SurveyTexts : FlowComment(u, text)
        \/ FlowNoComment(u)

NextFlow ==
    \/ \E u \in Users : FlowStart(u)
    \/ \E vols \in Volunteers(Users) : FlowAnnounce(vols)
    \/ \E u \in Users : FlowAccept(u)
    \/ \E u \in Users, code \in Offers : FlowOffer(u, code)
    \/ \E v \in Users, t \in Times : FlowAssign(v, t)
    \/ \E vols \in Volunteers(Users) : FlowReannounce(vols)
    \/ \E v \in Users, t \in Times : FlowReassign(v, t)
    \/ \E u \in Users, code \in SymptomToggles : FlowSymptomTick(u, code)
    \/ FlowAnswer

\* The dispatcher handles every update it receives, and the assignee answers
\* every prompt: an answer that stays possible is eventually given.
SpecFlow == Init /\ [][NextFlow]_vars /\ WF_vars(FlowAnswer)

\* Two volunteers and two requests: the notifications only.
NextPair ==
    \/ \E u \in Users : OnBotStart(u)
    \/ Hooks(Users, Requests)

SpecPair == Init /\ [][NextPair]_vars

(***************************************************************************)
(* The notification handlers on a worker thread                            *)
(*                                                                         *)
(* The three hooks are decorated with @run_async: the REST thread hands    *)
(* them to the dispatcher's thread pool, where they run next to the        *)
(* dispatcher thread that serves the chat updates, with no lock.  A hook   *)
(* is cut here at the statements that read or write the shared dicts.  A   *)
(* write of bot_data's keys and the update_persistence() that follows it   *)
(* are one step, so persistence.bot_data has the dispatcher's keys at      *)
(* every step boundary.  One hook is cut at a time; what runs between two  *)
(* of its steps runs whole, and at most one handler does.                  *)
(***************************************************************************)
\* The store as a world with empty outputs.
AsWorld(s) ==
    [ud |-> s.ud, bd |-> s.bd, reg |-> s.reg, known |-> s.known,
     persisted |-> s.persisted, shown |-> s.shown,
     sent |-> NoSent, edited |-> NoEdit, calls |-> <<>>, ok |-> TRUE,
     saved |-> Absent]

Snapshot(w) ==
    [ud |-> w.ud, bd |-> w.bd, reg |-> w.reg, known |-> w.known,
     persisted |-> w.persisted, shown |-> w.shown]

\* hook_request_assistance, the head of one turn of the loop: is chat_id
\* contacted?  The announcement that follows changes no dict; it is sent
\* with the next step.
request_visit(w, c) == Contacted(w, {c}) # {}

\* hook_request_assistance, the end of one turn of the loop.
request_mark(w, r, c) ==
    [Send(w, c, "MSG_REQUEST_ANNOUNCEMENT") EXCEPT
        !.ud[c].state = REQUEST_SENT,
        !.ud[c].reviewed_request = r,
        !.known = @ \cup {c}]

\* hook_request_assistance after the loop.
request_store(w, r, vols) ==
    update_persistence([w EXCEPT !.bd = PutRequest(w.bd, r, NewRequestData(vols))])

\* hook_cancel_assistance up to the update of the volunteer's dict.
cancel_reset(w, v) ==
    [Touch(Send(w, v, "MSG_REQUEST_CANCELED"), v) EXCEPT
        !.ud[v].current_request = None,
        !.ud[v].reviewed_request = None,
        !.ud[v].state = AVAILABLE]

\* hook_cancel_assistance: del bot_data[request_id]; update_persistence().
cancel_delete(w, r) ==
    IF ~HasReq(w, r)
    THEN Raise(w)
    ELSE update_persistence([w EXCEPT !.bd = DelRequest(w.bd, r)])

\* hook_assign_assistance: dispatcher.bot_data[request_id].update({"time": ..}).
assign_time(w, r, t) ==
    IF ~HasReq(w, r)
    THEN Raise(w)                            \* KeyError outside the try
    ELSE [w EXCEPT !.bd[r].time = Some(utc_short_to_user_short(t))]

\* hook_assign_assistance: the loop over request_details["volunteers"].
assign_release(w, vols, v) ==
    LET others == vols \ {v}
    IN  [w EXCEPT
           !.ud = [c \in Users |->
                     IF c \in others
                     THEN [w.ud[c] EXCEPT !.state = AVAILABLE,
                                          !.reviewed_request = None]
                     ELSE w.ud[c]],
           !.sent = [c \in Users |->
                       IF c \in others
                       THEN Append(w.sent[c], "MSG_ANOTHER_ASSIGNEE")
                       ELSE w.sent[c]],
           !.known = @ \cup others]

\* hook_assign_assistance: the assignee's current_request; update_persistence().
assign_take(w, r, v) ==
    update_persistence([Touch(w, v) EXCEPT !.ud[v].current_request = r])

\* hook_assign_assistance: the caution menu.
assign_caution(w, v) ==
    SendMenu(w, v, "MSG_CAUTION", "caution")

\* The REST thread hands a notification to the pool.
ReceiveRequest(r, vols) ==
    /\ worker.pc = "idle"
    /\ worker' = [Idle EXCEPT !.pc = "request_loop", !.kind = "request",
                              !.r = r, !.vols = vols, !.todo = vols,
                              !.start = Some(Snapshot(World))]
    /\ UNCHANGED <<user_data, bot_data, registrations, known, persisted, shown>>

ReceiveCancel(r, v) ==
    /\ worker.pc = "idle"
    /\ worker' = [Idle EXCEPT !.pc = "cancel_reset", !.kind = "cancel",
                              !.r = r, !.v = v,
                              !.start = Some(Snapshot(World))]
    /\ UNCHANGED <<user_data, bot_data, registrations, known, persisted, shown>>

\* hook_assign_assistance starts with its lookup: an unknown request ends it.
ReceiveAssign(r, v, t) ==
    /\ worker.pc = "idle"
    /\ worker' = [Idle EXCEPT !.pc = IF HasReq(World, r) THEN "assign_time"
                                     ELSE "done",
                              !.kind = "assign", !.r = r, !.v = v, !.t = t,
                              !.vols = IF HasReq(World, r)
                                       THEN bot_data[r].volunteers ELSE {},
                              !.start = Some(Snapshot(World))]
    /\ UNCHANGED <<user_data, bot_data, registrations, known, persisted, shown>>

\* The worker's next step.
RequestVisit ==
    /\ worker.pc = "request_loop"
    /\ worker.todo # {}
    /\ \E c \in worker.todo :
           worker' = [worker EXCEPT
                        !.todo = @ \ {c},
                        !.cur = IF request_visit(World, c) THEN c ELSE None,
                        !.pc = IF request_visit(World, c) THEN "request_mark"
                               ELSE "request_loop"]
    /\ UNCHANGED <<user_data, bot_data, registrations, known, persisted, shown>>

RequestMark ==
    /\ worker.pc = "request_mark"
    /\ Store(request_mark(World, worker.r, worker.cur))
    /\ worker' = [worker EXCEPT !.pc = "request_loop", !.cur = None]

RequestStore ==
    /\ worker.pc = "request_loop"
    /\ worker.todo = {}
    /\ Store(request_store(World, worker.r, worker.vols))
    /\ worker' = [worker EXCEPT !.pc = "done"]

CancelReset ==
    /\ worker.pc = "cancel_reset"
    /\ Store(cancel_reset(World, worker.v))
    /\ worker' = [worker EXCEPT !.pc = "cancel_delete"]

CancelDelete ==
    /\ worker.pc = "cancel_delete"
    /\ LET w == cancel_delete(World, worker.r)
       IN  /\ Store(w)
           /\ worker' = [worker EXCEPT !.pc = "done", !.failed = ~w.ok]

AssignTime ==
    /\ worker.pc = "assign_time"
    /\ LET w == assign_time(World, worker.r, worker.t)
       IN  /\ Store(w)
           /\ worker' = [worker EXCEPT
                           !.pc = IF w.ok THEN "assign_release" ELSE "done",
                           !.failed = ~w.ok]

AssignRelease ==
    /\ worker.pc = "assign_release"
    /\ Store(assign_release(World, worker.vols, worker.v))
    /\ worker' = [worker EXCEPT !.pc = "assign_take"]

AssignTake ==
    /\ worker.pc = "assign_take"
    /\ Store(assign_take(World, worker.r, worker.v))
    /\ worker' = [worker EXCEPT !.pc = "assign_caution"]

AssignCaution ==
    /\ worker.pc = "assign_caution"
    /\ Store(assign_caution(World, worker.v))
    /\ worker' = [worker EXCEPT !.pc = "done"]

\* The pool's thread is free again.
Retire ==
    /\ worker.pc = "done"
    /\ worker' = Idle
    /\ UNCHANGED <<user_data, bot_data, registrations, known, persisted, shown>>

\* A handler that runs whole: a chat update on the dispatcher thread, or a
\* notification on another thread of the pool.
Event(kind, u, code, r) ==
    [kind |-> kind, u |-> u, code |-> code, r |-> r]

AsyncEvents ==
    {Event("eta", "A", code, None) : code \in {"eta_never"} \cup Offers}
    \cup {Event("dispatch", "A", code, None) :
              code \in {"caution_ok", "caution_cancel"}}
    \cup {Event("handle", "A", code, None) : code \in AllHandle}
    \cup {Event(kind, "A", "none", "R1") : kind \in {"request", "assign", "cancel"}}

\* The update can arrive: its button is in the chat.
CanArrive(w, e) ==
    IF e.kind \in {"request", "assign", "cancel"} THEN TRUE
    ELSE IF e.code = "handle_cancel"
    THEN w.shown[e.u] \cap {"handling", "inprogress"} # {}
    ELSE MenuOfButton(e.code) \in w.shown[e.u]

RunEvent(w0, e) ==
    LET w == [w0 EXCEPT !.ok = TRUE]
    IN  CASE e.kind = "eta" ->
               Handled(negotiate_time(Touch(w, e.u), e.u, e.code, TRUE))
          [] e.kind = "dispatch" ->
               Handled(confirm_dispatch(Touch(w, e.u), e.u, e.code, TRUE))
          [] e.kind = "handle" ->
               Handled(confirm_handle(Touch(w, e.u), e.u, e.code, TRUE))
          [] e.kind = "request" -> hook_request_assistance(w, e.r, {e.u})
          [] e.kind = "assign" -> hook_assign_assistance(w, e.r, e.u, "20:40")
          [] e.kind = "cancel" -> hook_cancel_assistance(w, e.r, e.u)

\* A handler runs whole between two steps of the worker.
During(e) ==
    /\ worker.pc \notin {"idle", "done"}
    /\ worker.mid = <<>>
    /\ CanArrive(World, e)
    /\ LET w == RunEvent(World, e)
       IN  /\ Store(w)
           /\ worker' = [worker EXCEPT !.mid = <<e>>, !.midok = w.ok]

WorkerStep ==
    \/ RequestVisit
    \/ RequestMark
    \/ RequestStore
    \/ CancelReset
    \/ CancelDelete
    \/ AssignTime
    \/ AssignRelease
    \/ AssignTake
    \/ AssignCaution
    \/ Retire

\* One volunteer and one request; while no notification is on a worker the
\* handlers run whole.
NextAsync ==
    \/ /\ worker.pc = "idle"
       /\ \/ ChatOffer({"A"}, {TRUE})
          \/ ChatDispatch({"A"}, AllHandle, {TRUE})
          \/ Hooks({"A"}, {"R1"})
    \/ ReceiveRequest("R1", {"A"})
    \/ ReceiveCancel("R1", "A")
    \/ ReceiveAssign("R1", "A", "20:40")
    \/ WorkerStep
    \/ \E e \in AsyncEvents : During(e)

SpecAsync == Init /\ [][NextAsync]_vars

(***************************************************************************)
(* Claims                                                                  *)
(***************************************************************************)
Holders(w, r) == {c \in Users : w.ud[c].current_request = r}

\* C1: right after an assign notification for a request R of the store is
\* processed (a repeated assign included), exactly one user has
\* current_request = R, and every other volunteer notified of R has state
\* AVAILABLE and reviewed_request None.  Stated of the requests whose
\* volunteers the store knows, and of assignments among those volunteers.
C1_ExactlyOneAssignee ==
    \A r \in Requests, v \in Users, t \in Times :
        ( /\ HasReq(World, r)
          /\ World.bd[r].volunteers \subseteq persisted
          /\ Holders(World, r) \cup {v} \subseteq World.bd[r].volunteers ) =>
            LET w == hook_assign_assistance(World, r, v, t)
            IN  /\ Cardinality(Holders(w, r)) = 1
                /\ \A c \in w.bd[r].volunteers \ {v} :
                       /\ w.ud[c].state = AVAILABLE
                       /\ w.ud[c].reviewed_request = None

\* What finalize_request leaves of user u and request r.
Finalized(w, u, r) ==
    /\ r \notin DOMAIN w.bd
    /\ w.ud[u].state = AVAILABLE
    /\ w.ud[u].current_request = None
    /\ w.ud[u].reviewed_request = None
    /\ w.ud[u].symptom_keyboard = Absent

\* C2: when the "no comments" button, or a free text in
\* EXPECTING_FURTHER_COMMENTS, is handled to its end (finalize_request
\* completes) for a user whose current request is R, R is no longer in the
\* request store and the user has state AVAILABLE, current_request and
\* reviewed_request None and no symptom keyboard snapshot.
C2_FinalizeClears ==
    \A u \in Users, up \in BOOLEAN, text \in Texts :
        LET r == user_data[u].current_request
            byButton == Handled(confirm_further(Incoming(u), u, up))
            byText == Handled(on_text_message(Incoming(u), u, text, up))
        IN  /\ byButton.ok => Finalized(byButton, u, r)
            /\ (user_data[u].state = EXPECTING_FURTHER_COMMENTS /\ byText.ok)
                   => Finalized(byText, u, r)

\* A user with the further-comments menu on screen, a reviewed request and a
\* symptom keyboard snapshot, for whom both ways of finalizing complete.
C2_Witness ==
    \E u \in Users :
        /\ user_data[u].state = EXPECTING_FURTHER_COMMENTS
        /\ "further" \in shown[u]
        /\ user_data[u].reviewed_request \in Requests
        /\ user_data[u].symptom_keyboard # Absent
        /\ HasReq(World, user_data[u].current_request)
        /\ confirm_further(Incoming(u), u, TRUE).ok
        /\ on_text_message(Incoming(u), u, "t1", TRUE).ok

\* C3: a user whose state is EXPECTING_AMOUNT, EXPECTING_RECEIPT,
\* EXPECTING_EXIT_SURVEY or EXPECTING_FURTHER_COMMENTS has current_request
\* set to a request.
C3_SurveyStepHasRequest ==
    \A u \in Users :
        user_data[u].state \in {EXPECTING_AMOUNT, EXPECTING_RECEIPT,
                                EXPECTING_EXIT_SURVEY,
                                EXPECTING_FURTHER_COMMENTS}
            => user_data[u].current_request \in Requests

\* User u holds both references.
HoldsBoth(u) ==
    /\ user_data[u].current_request \in Requests
    /\ user_data[u].reviewed_request \in Requests

\* C4 (as claimed): no user has current_request and reviewed_request set at
\* the same time.
C4_AtMostOneReference ==
    \A u \in Users : ~HoldsBoth(u)

\* C4 (amended): a user has current_request and reviewed_request set at the
\* same time only after an assign notification named that user (it sent them
\* the health-caution menu); a user no assign notification named has at most
\* one of the two set.
C4_BothOnlyOnceAssigned ==
    \A u \in Users : HoldsBoth(u) => "caution" \in shown[u]

\* An assignee holding both references to the request it was assigned, beside
\* a user of the store that no assign notification named.
C4_Witness ==
    \E u \in Users, v \in Users :
        /\ HoldsBoth(u)
        /\ user_data[u].current_request = user_data[u].reviewed_request
        /\ v \in persisted
        /\ "caution" \notin shown[v]

\* The menu the engine edits on a press: the user's snapshot, or the
\* canonical menu when there is none.
MenuOf(snapshot, canonical) ==
    IF snapshot = Absent THEN canonical ELSE Get(snapshot)

\* The members of a request's symptoms (none when the key is missing).
SymptomsOf(w, r) ==
    IF w.bd[r].symptoms = Absent THEN {} ELSE Range(Get(w.bd[r].symptoms))

\* Two presses of the same symptom option by user u.
SymptomTwice(u, code) ==
    confirm_symptom(confirm_symptom(Incoming(u), u, code), u, code)

\* Two presses of the same activity option by user u.
ActivityTwice(u, code) ==
    confirm_activities(confirm_activities(Incoming(u), u, code, TRUE),
                       u, code, TRUE)

RECURSIVE AfterAnswers(_, _, _, _)
\* The world after user u has sent the first k texts of `texts`, one message
\* each, with the backend answering.
AfterAnswers(w, u, texts, k) ==
    IF k = 0 THEN w
    ELSE on_text_message(AfterAnswers(w, u, texts, k - 1), u, texts[k], TRUE)

RECURSIVE Filled(_, _, _, _)
\* The profile with its first k fields of `keys` set to the first k texts.
Filled(profile, keys, texts, k) ==
    IF k = 0 THEN profile
    ELSE SetField(Filled(profile, keys, texts, k - 1), keys[k], texts[k])

\* The registrations sent to the backend by the handlers that led to w.
Registered(w) ==
    LET IsRegister(call) == call.fn = "register_pending_volunteer"
    IN  SelectSeq(w.calls, IsRegister)

\* The questions of a profile in the order they are declared, and those of
\* them a profile has no answer to.
DeclaredQuestions ==
    <<"first_name", "last_name", "availability", "activities", "phone", "email">>

Pending(profile) ==
    LET NoAnswer(key) ==
            IF key = "activities" THEN profile.activities.items = <<>>
            ELSE profile[key] = None
    IN  SelectSeq(DeclaredQuestions, NoAnswer)

\* User u is being asked for profile details and N > 0 fields are unanswered.
Answering(u) ==
    /\ u \in DOMAIN registrations
    /\ user_data[u].state = EXPECTING_PROFILE_DETAILS
    /\ Pending(registrations[u]) # <<>>

\* C6: for a pending profile with N > 0 unanswered fields and N free-text
\* answers, the k-th answer is written to the k-th unanswered field in
\* declaration order; before the N-th answer the profile stays pending and
\* nothing is registered; after the N-th the pending profile is removed, the
\* state is AVAILABLE and register_pending_volunteer has been called exactly
\* once, with the filled profile.
C6_AnswersFillInOrder ==
    \A u \in Users :
        Answering(u) =>
            LET keys == Pending(registrations[u])
                N == Len(keys)
            IN  \A texts \in [1 .. N -> Texts], k \in 1 .. N :
                    LET w == AfterAnswers(Incoming(u), u, texts, k)
                        filled == Filled(registrations[u], keys, texts, k)
                    IN  /\ w.ok
                        /\ k < N =>
                               /\ u \in DOMAIN w.reg
                               /\ w.reg[u] = filled
                               /\ Registered(w) = <<>>
                        /\ k = N =>
                               /\ u \notin DOMAIN w.reg
                               /\ w.ud[u].state = AVAILABLE
                               /\ Len(Registered(w)) = 1
                               /\ Registered(w)[1].payload
                                      = Some([filled EXCEPT !.chat_id = u])

\* A user who shared a foreign number from an account without names: all six
\* questions are unanswered, and six answers register the profile.
C6_Witness ==
    \E u \in Users :
        /\ Answering(u)
        /\ Len(Pending(registrations[u])) = 6
        /\ LET w == AfterAnswers(Incoming(u), u, [i \in 1 .. 6 |-> "t1"], 6)
           IN  w.ok /\ u \notin DOMAIN w.reg /\ Len(Registered(w)) = 1

\* A contact with a foreign number, shared by a user who has no pending
\* profile, handled with the backend answering.
ForeignContact(u, phone, first_name, last_name, exists) ==
    on_contact(Incoming(u), u, phone, first_name, last_name, exists, TRUE)

\* The question build_profile sends for the profile's foreign phone, were it
\* ever asked.
ForeignPhoneQuestion == Question("phone_foreign")

\* C7 (as claimed): when an unknown user shares a contact whose number is not
\* local, the created profile has phone None and phone_foreign set to the
\* number, the question asked after the contact is the one for the local
\* phone, and the foreign phone is not asked for.
C7_NextQuestionIsPhone ==
    \A u \in Users, phone \in ForeignPhones, first_name \in FirstNames,
       last_name \in LastNames, exists \in BOOLEAN :
        u \notin DOMAIN registrations =>
            LET w == ForeignContact(u, phone, first_name, last_name, exists)
            IN  /\ w.reg[u].phone = None
                /\ w.reg[u].phone_foreign = phone
                /\ w.sent[u] = <<Question("phone")>>
                /\ ForeignPhoneQuestion \notin Range(w.sent[u])

\* C7 (amended): when an unknown user shares a contact whose number is not
\* local, the created profile has phone None and phone_foreign set to the
\* number, and the question asked after the contact is the one for the first
\* unanswered field in declaration order (first name, last name or
\* availability).  The local phone is asked for in its turn: once the fields
\* declared before it are answered, the next question is the one for the
\* phone.  No handler ever asks for the foreign phone.
C7_PhoneAskedInItsTurn ==
    \A u \in Users :
        /\ \A phone \in ForeignPhones, first_name \in FirstNames,
              last_name \in LastNames, exists \in BOOLEAN :
               u \notin DOMAIN registrations =>
                   LET w == ForeignContact(u, phone, first_name, last_name,
                                           exists)
                       first == IF first_name = None THEN "first_name"
                                ELSE IF last_name = None THEN "last_name"
                                ELSE "availability"
                   IN  /\ w.ok
                       /\ w.reg[u].phone = None
                       /\ w.reg[u].phone_foreign = phone
                       /\ w.sent[u] = <<Question(first)>>
        /\ ( /\ u \in DOMAIN registrations
             /\ registrations[u].phone_foreign \in ForeignPhones ) =>
               LET byButton == confirm_activities(Incoming(u), u, "assist_next",
                                                  TRUE)
               IN  /\ \A text \in Texts :
                       ForeignPhoneQuestion \notin
                           Range(on_text_message(Incoming(u), u, text, TRUE).sent[u])
                   /\ ForeignPhoneQuestion \notin Range(byButton.sent[u])
                   /\ ( /\ byButton.ok
                        /\ Pending(registrations[u]) = <<"phone", "email">> ) =>
                          byButton.sent[u] = <<Question("phone")>>

\* A user whose pending profile holds a foreign phone and no local one, with
\* activities ticked: the "next" button of the activity menu asks for the
\* local phone.
C7_Witness ==
    \E u \in Users :
        /\ u \in DOMAIN registrations
        /\ registrations[u].phone_foreign \in ForeignPhones
        /\ registrations[u].phone = None
        /\ "assist" \in shown[u]
        /\ Pending(registrations[u]) = <<"phone", "email">>
        /\ registrations[u].activities.tag = "list"
        /\ confirm_activities(Incoming(u), u, "assist_next", TRUE).sent[u]
               = <<Question("phone")>>

\* How many times the would-you-return menu was sent to u by the handlers
\* that led to w.
WouldYouSent(w, u) ==
    LET IsWouldYou(m) == m = "MSG_WOULD_YOU_DO_THIS_AGAIN"
    IN  Len(SelectSeq(w.sent[u], IsWouldYou))

\* User u is in the exit survey of a stored request with no symptom recorded.
SurveyNoSymptom(u) ==
    /\ user_data[u].state = EXPECTING_EXIT_SURVEY
    /\ HasReq(World, user_data[u].current_request)
    /\ SymptomsOf(World, user_data[u].current_request) = {}

\* C8: for a user in the exit survey whose current request has no symptom
\* recorded, the presses symptom_fever, symptom_fever, symptom_next are all
\* handled, leave the request's symptoms an empty list and no symptom
\* keyboard snapshot, and send the would-you-return menu once, on the third
\* press.
C8_FeverFeverNext ==
    \A u \in Users :
        SurveyNoSymptom(u) =>
            LET r == user_data[u].current_request
                w1 == confirm_symptom(Incoming(u), u, "symptom_fever")
                w2 == confirm_symptom(w1, u, "symptom_fever")
                w3 == confirm_symptom(w2, u, "symptom_next")
            IN  /\ w1.ok /\ w2.ok /\ w3.ok
                /\ w3.bd[r].symptoms = Some(<<>>)
                /\ w3.ud[u].symptom_keyboard = Absent
                /\ WouldYouSent(w1, u) = 0
                /\ WouldYouSent(w2, u) = 0
                /\ WouldYouSent(w3, u) = 1
                /\ "wouldyou" \in w3.shown[u]

\* A user who has just answered the wellbeing question: the symptom menu is
\* on screen, nothing was ticked, and the first press records the fever.
C8_Witness ==
    \E u \in Users :
        /\ SurveyNoSymptom(u)
        /\ "symptom" \in shown[u]
        /\ "wouldyou" \notin shown[u]
        /\ user_data[u].symptom_keyboard = Absent
        /\ bot_data[user_data[u].current_request].wellbeing # Absent
        /\ SymptomsOf(confirm_symptom(Incoming(u), u, "symptom_fever"),
                      user_data[u].current_request) = {"symptom_fever"}

\* The new-request notification for r to the volunteers a and b, then the
\* assign notification of r to a.
AnnouncedThenAssigned(r, a, b, t) ==
    hook_assign_assistance(hook_request_assistance(World, r, {a, b}), r, a, t)

\* C9: after a new-request notification for R to the volunteers A and B, both
\* in the store, and an assign notification of R to A, B has been sent the
\* announcement and then the message that somebody else was assigned and has
\* state AVAILABLE and reviewed_request None; A has been sent the
\* announcement and then the health-caution menu, not the message about
\* somebody else, and has current_request R.
C9_OtherVolunteerReleased ==
    \A r \in Requests, a \in Users, b \in Users, t \in Times :
        (a # b /\ {a, b} \subseteq persisted) =>
            LET w == AnnouncedThenAssigned(r, a, b, t)
            IN  /\ w.ok
                /\ w.sent[b] = <<"MSG_REQUEST_ANNOUNCEMENT", "MSG_ANOTHER_ASSIGNEE">>
                /\ w.ud[b].state = AVAILABLE
                /\ w.ud[b].reviewed_request = None
                /\ w.sent[a] = <<"MSG_REQUEST_ANNOUNCEMENT", "MSG_CAUTION">>
                /\ "caution" \in w.shown[a]
                /\ w.ud[a].current_request = r
                /\ w.ud[a].reviewed_request = r

\* The state the two notifications leave: request R1 of A and B with its time
\* set, A holding it with the health-caution menu, B released.
C9_Witness ==
    \E a \in Users, b \in Users :
        /\ a # b
        /\ {a, b} \subseteq persisted
        /\ HasReq(World, "R1")
        /\ bot_data["R1"].volunteers = {a, b}
        /\ bot_data["R1"].time # Absent
        /\ user_data[a].current_request = "R1"
        /\ user_data[a].reviewed_request = "R1"
        /\ "caution" \in shown[a]
        /\ user_data[b].state = AVAILABLE
        /\ user_data[b].reviewed_request = None
        /\ user_data[b].current_request = NoKey

\* C10: a cancel notification for a request that is not in the request store
\* is dropped: the handler does not raise, sends no message to any user, and
\* changes no user state and no request state.
C10_UnknownCancelDropped ==
    \A r \in Requests, v \in Users :
        ~HasReq(World, r) =>
            LET w == hook_cancel_assistance(World, r, v)
            IN  /\ w.ok
                /\ w.sent = NoSent
                /\ w.ud = user_data
                /\ w.bd = bot_data

\* C11: an assign notification for a request that is not in the request
\* store is a no-op: the handler returns, no message is sent to any user, no
\* user's state, current_request or reviewed_request changes, and the request
\* store is as it was (no request is created).
C11_UnknownAssignIsNoOp ==
    \A r \in Requests, v \in Users, t \in Times :
        ~HasReq(World, r) =>
            LET w == hook_assign_assistance(World, r, v, t)
            IN  /\ w.ok
                /\ w.sent = NoSent
                /\ w.edited = NoEdit
                /\ w.ud = user_data
                /\ w.bd = bot_data
                /\ w.shown = shown

\* Request R1 has left the store while a user still reviews it, and the
\* assign notification naming that user leaves the world as it is.
C11_Witness ==
    \E u \in Users :
        /\ ~HasReq(World, "R1")
        /\ user_data[u].reviewed_request = "R1"
        /\ hook_assign_assistance(World, "R1", u, "20:40") = World

\* C12: a cancel notification for a request R of the store naming the
\* volunteer V returns, sends V the cancellation message and nothing to
\* anybody else, leaves V with state AVAILABLE and current_request and
\* reviewed_request None, removes R from the request store and persists.
C12_CancelReleasesAssignee ==
    \A r \in Requests, v \in Users :
        HasReq(World, r) =>
            LET w == hook_cancel_assistance(World, r, v)
            IN  /\ w.ok
                /\ w.sent = [NoSent EXCEPT ![v] = <<"MSG_REQUEST_CANCELED">>]
                /\ w.ud[v].state = AVAILABLE
                /\ w.ud[v].current_request = None
                /\ w.ud[v].reviewed_request = None
                /\ w.bd = DelRequest(bot_data, r)
                /\ ~HasReq(w, r)
                /\ v \in w.persisted

\* A volunteer on the way to the beneficiary of R1 (assigned, health
\* confirmed, in-progress menu on screen) whose request the backend can
\* cancel.
C12_Witness ==
    \E v \in Users :
        /\ HasReq(World, "R1")
        /\ user_data[v].current_request = "R1"
        /\ user_data[v].reviewed_request = "R1"
        /\ "inprogress" \in shown[v]
        /\ ~HasReq(hook_cancel_assistance(World, "R1", v), "R1")

\* The world in which the users of `busy` are recorded with state s.
Marked(busy, s) ==
    [World EXCEPT !.ud = [c \in Users |->
                            IF c \in busy THEN [user_data[c] EXCEPT !.state = s]
                            ELSE user_data[c]]]

\* C13: a new-request notification for R returns; every targeted volunteer of
\* the store whose state is not REQUEST_ASSIGNED or REQUEST_IN_PROGRESS is
\* sent the announcement and gets state REQUEST_SENT and reviewed_request R;
\* every targeted volunteer of the store whose state is REQUEST_ASSIGNED or
\* REQUEST_IN_PROGRESS is sent nothing and keeps its dict; R is in the request
\* store afterwards with the notification's data.  No handler records either
\* of the two states, so the handler is also applied to the reachable stores
\* with some users recorded in them.
C13_NewRequestContacts ==
    \A r \in Requests, vols \in SUBSET Users, busy \in SUBSET Users,
       s \in {REQUEST_ASSIGNED, REQUEST_IN_PROGRESS} :
        LET w0 == Marked(busy, s)
            w == hook_request_assistance(w0, r, vols)
        IN  /\ w.ok
            /\ \A c \in vols \cap persisted :
                   IF c \in busy
                   THEN /\ w.sent[c] = <<>>
                        /\ w.ud[c] = w0.ud[c]
                   ELSE /\ w.sent[c] = <<"MSG_REQUEST_ANNOUNCEMENT">>
                        /\ w.ud[c].state = REQUEST_SENT
                        /\ w.ud[c].reviewed_request = r
            /\ HasReq(w, r)
            /\ w.bd[r] = NewRequestData(vols)

\* Both users are in the store and R1 is already there with an assigned time:
\* a new notification for R1 contacts both and replaces the request's data.
C13_Witness ==
    /\ Users \subseteq persisted
    /\ HasReq(World, "R1")
    /\ bot_data["R1"].time # Absent
    /\ \E u \in Users : user_data[u].state = AVAILABLE
    /\ LET w == hook_request_assistance(World, "R1", Users)
       IN  /\ w.bd["R1"].time = Absent
           /\ \A c \in Users : w.ud[c].state = REQUEST_SENT

\* A volunteer the request r of the store was announced to.
Announced(u, r) ==
    /\ HasReq(World, r)
    /\ u \in bot_data[r].volunteers
    /\ u \in persisted
    /\ user_data[u].reviewed_request = r

\* C14: after an assign notification for a request R of the store naming
\* volunteer V (one of the volunteers R was announced to) is processed, V's
\* state is REQUEST_ASSIGNED.
C14_AssigneeIsAssigned ==
    \A r \in Requests, v \in Users, t \in Times :
        Announced(v, r) =>
            hook_assign_assistance(World, r, v, t).ud[v].state = REQUEST_ASSIGNED

\* C15: when a user with state REQUEST_SENT sends the decline command, the
\* user gets the acknowledgement and the user's state becomes AVAILABLE.
C15_DeclineMakesAvailable ==
    \A u \in Users :
        user_data[u].state = REQUEST_SENT =>
            LET w == Handled(on_reject(Incoming(u), u))
            IN  /\ w.ok
                /\ w.sent[u] = <<"MSG_THANKS_NOTHANKS">>
                /\ w.ud[u].state = AVAILABLE

\* A volunteer who is the assignee of request r of the store.
Assignee(u, r) ==
    /\ HasReq(World, r)
    /\ user_data[u].current_request = r
    /\ user_data[u].reviewed_request = r

\* C16: when an assigned volunteer presses handle_onmyway and the backend
\* answers, the backend is told that the request is in progress, the
\* in-progress menu is sent and the volunteer's state becomes
\* REQUEST_IN_PROGRESS.
C16_OnMyWayInProgress ==
    \A u \in Users, r \in Requests :
        (Assignee(u, r) /\ OnScreen(u, "handle_onmyway")) =>
            LET w == Handled(confirm_handle(Incoming(u), u, "handle_onmyway", TRUE))
            IN  /\ w.ok
                /\ w.calls = <<[fn |-> "update_request_status", req |-> r,
                                arg |-> "onprogress", payload |-> Absent]>>
                /\ "inprogress" \in w.shown[u]
                /\ w.ud[u].state = REQUEST_IN_PROGRESS

\* C17: when a volunteer who is fulfilling request R (current_request R, R in
\* the store with an assigned time) presses handle_done and the backend
\* answers, the backend receives exactly one status update, 'done' for R, the
\* expenses menu is sent and the state becomes EXPECTING_AMOUNT.
C17_DoneReportsCurrentRequest ==
    \A u \in Users, r \in Requests :
        ( /\ HasReq(World, r)
          /\ bot_data[r].time # Absent
          /\ user_data[u].current_request = r
          /\ OnScreen(u, "handle_done") ) =>
            LET w == Handled(confirm_handle(Incoming(u), u, "handle_done", TRUE))
            IN  /\ w.ok
                /\ w.calls = <<[fn |-> "update_request_status", req |-> r,
                                arg |-> "done", payload |-> Absent]>>
                /\ "endgame" \in w.shown[u]
                /\ w.ud[u].state = EXPECTING_AMOUNT

\* The buttons that refer to a request, and the handler of each.
RequestButtons ==
    {"caution_ok", "caution_cancel", "furthercomments_no",
     "wouldyou_yes", "wouldyou_no"} \cup AllHandle \cup AllSymptom

Pressed(u, code, up) ==
    Handled(
      IF code \in {"caution_ok", "caution_cancel"}
      THEN confirm_dispatch(Incoming(u), u, code, up)
      ELSE IF code \in AllHandle
      THEN confirm_handle(Incoming(u), u, code, up)
      ELSE IF code \in AllSymptom
      THEN confirm_symptom(Incoming(u), u, code)
      ELSE IF code \in {"wouldyou_yes", "wouldyou_no"}
      THEN confirm_wouldyou(Incoming(u), u, code)
      ELSE confirm_further(Incoming(u), u, up))

\* The user refers to no request of the store.
RequestGone(u) ==
    /\ ~HasReq(World, user_data[u].current_request)
    /\ ~HasReq(World, user_data[u].reviewed_request)

\* What a dropped update leaves: no exception, no message, no backend call,
\* and the user's state and request references as they were.
Dropped(w, u) ==
    /\ w.ok
    /\ w.sent = NoSent
    /\ w.edited = NoEdit
    /\ w.calls = <<>>
    /\ w.ud[u].state = user_data[u].state
    /\ w.ud[u].current_request = user_data[u].current_request
    /\ w.ud[u].reviewed_request = user_data[u].reviewed_request
    /\ w.bd = bot_data

\* C18: a press of a button of the caution, handling, in-progress, expenses,
\* wellbeing, symptom, would-you or further-comments menu by a user whose
\* request is no longer in the request store is dropped.
C18_PressWithoutRequestDropped ==
    \A u \in SurveyUsers, up \in BOOLEAN :
        RequestGone(u) =>
            /\ \A code \in RequestButtons :
                   OnScreen(u, code) => Dropped(Pressed(u, code, up), u)
            /\ \A score \in Scores :
                   "wellbeing" \in shown[u] =>
                       Dropped(Handled(confirm_wellbeing(Incoming(u), u, score)), u)

\* The states in which a text is expected, and the one in which a photo is.
TextStates ==
    {EXPECTING_AMOUNT, EXPECTING_FURTHER_COMMENTS, EXPECTING_PROFILE_DETAILS}

\* C19: a text from a user whose state expects none, and a photo from a user
\* whose state is not EXPECTING_RECEIPT, a user with no recorded state
\* included, is dropped: no exception, no message, no backend call, no change
\* of the user or of the requests.
C19_UnexpectedMessageDropped ==
    \A u \in SurveyUsers, up \in BOOLEAN :
        /\ user_data[u].state \notin TextStates =>
               \A text \in SurveyTexts :
                   LET w == Handled(on_text_message(Incoming(u), u, text, up))
                   IN  Dropped(w, u) /\ w.ud = user_data
        /\ user_data[u].state # EXPECTING_RECEIPT =>
               \A n \in 1 .. MaxPhotos :
                   LET w == Handled(on_photo(Incoming(u), u, n, up))
                   IN  Dropped(w, u) /\ w.ud = user_data

\* The handler made a backend call and the call failed.
CallFailed(w) == ~w.ok /\ w.calls # <<>>

\* The user's state and request references and the request store are as
\* before the update.
Kept(w, u) ==
    /\ w.ud[u].state = user_data[u].state
    /\ w.ud[u].current_request = user_data[u].current_request
    /\ w.ud[u].reviewed_request = user_data[u].reviewed_request
    /\ w.bd = bot_data

\* C20: for every handler that makes a backend call (the status updates of
\* handle_done, handle_cancel, caution_cancel and handle_onmyway, the offer,
\* the receipt upload, the final result), when the call fails the user's
\* state, current_request and reviewed_request and the request store are the
\* same as before the update.
C20_FailedCallKeepsState ==
    \A u \in SurveyUsers :
        /\ \A code \in RequestButtons :
               OnScreen(u, code) =>
                   LET w == Pressed(u, code, FALSE)
                   IN  CallFailed(w) => Kept(w, u)
        /\ \A code \in Offers :
               OnScreen(u, code) =>
                   LET w == Handled(negotiate_time(Incoming(u), u, code, FALSE))
                   IN  CallFailed(w) => Kept(w, u)
        /\ \A text \in SurveyTexts :
               LET w == Handled(on_text_message(Incoming(u), u, text, FALSE))
               IN  CallFailed(w) => Kept(w, u)
        /\ \A n \in 1 .. MaxPhotos :
               LET w == Handled(on_photo(Incoming(u), u, n, FALSE))
               IN  CallFailed(w) => Kept(w, u)

\* The notification the worker ran, run whole on the world w.
RunJob(w0, job) ==
    LET w == [w0 EXCEPT !.ok = TRUE]
    IN  CASE job.kind = "request" -> hook_request_assistance(w, job.r, job.vols)
          [] job.kind = "assign" -> hook_assign_assistance(w, job.r, job.v, job.t)
          [] job.kind = "cancel" -> hook_cancel_assistance(w, job.r, job.v)

Outcome(ud, bd, hook_ok, event_ok) ==
    [ud |-> ud, bd |-> bd, hook_ok |-> hook_ok, event_ok |-> event_ok]

\* The outcomes of running the worker's notification and the handler that ran
\* during it one after the other, from the store the notification started in.
SerialOutcomes(job) ==
    LET start == AsWorld(Get(job.start))
        h == RunJob(start, job)
    IN  IF job.mid = <<>>
        THEN {Outcome(h.ud, h.bd, h.ok, TRUE)}
        ELSE
          LET e == job.mid[1]
              he == RunEvent(h, e)
              e1 == RunEvent(start, e)
              eh == RunJob(e1, job)
          IN  {Outcome(he.ud, he.bd, h.ok, he.ok)}
              \cup (IF CanArrive(start, e)
                    THEN {Outcome(eh.ud, eh.bd, eh.ok, e1.ok)}
                    ELSE {})

\* C21: when a notification handler that ran on a worker thread next to
\* another handler ends, the users' dicts and the request store are those of
\* running the two handlers one after the other in some order, and a handler
\* has failed only if it fails in that order.
C21_InterleavingIsSerial ==
    worker.pc = "done" =>
        Outcome(user_data, bot_data, ~worker.failed, worker.midok)
            \in SerialOutcomes(worker)

\* The handler changed a user's dict or the request store.
Mutated(w) == w.ud # user_data \/ w.bd # bot_data

\* The handler's last update_persistence() came after its last change.
Persisted(w) == w.saved = Some([ud |-> w.ud, bd |-> w.bd])

\* C22: a notification handler (new request, assign, cancel) that has changed
\* a user's dict or the request store has handed the store to the
\* persistence layer, after its last change, when it ends, whether it returns
\* or raises.
C22_HookPersistsItsWrites ==
    \A r \in Requests, v \in Users, t \in Times, vols \in Volunteers(Users) :
        LET wr == hook_request_assistance(World, r, vols)
            wa == hook_assign_assistance(World, r, v, t)
            wc == hook_cancel_assistance(World, r, v)
        IN  /\ Mutated(wr) => Persisted(wr)
            /\ Mutated(wa) => Persisted(wa)
            /\ Mutated(wc) => Persisted(wc)

\* C23: when a user shares a contact and the backend's answer says that the
\* volunteer exists, the user gets the standby message, the state becomes
\* AVAILABLE and no registration profile is created; when the answer says
\* that the volunteer does not exist, the user has a registration profile and
\* state EXPECTING_PROFILE_DETAILS.
C23_KnownVolunteerSkipsProfile ==
    \A u \in {"A"}, phone \in Phones, first_name \in FirstNames,
       last_name \in LastNames, exists \in BOOLEAN :
        u \notin DOMAIN registrations =>
            LET w == Handled(on_contact(Incoming(u), u, phone, first_name,
                                        last_name, exists, TRUE))
            IN  /\ w.ok
                /\ IF exists
                   THEN /\ w.sent[u] = <<"MSG_STANDBY">>
                        /\ w.ud[u].state = AVAILABLE
                        /\ w.reg = registrations
                   ELSE /\ u \in DOMAIN w.reg
                        /\ w.ud[u].state = EXPECTING_PROFILE_DETAILS

\* C24: once request R of the store has been assigned to volunteer V (V has
\* current_request R and R has its assigned time), an assign notification for
\* R that names another volunteer does not give that volunteer
\* current_request R.
C24_AssigneeIsImmutable ==
    \A r \in Requests, v \in Users, other \in Users, t \in Times :
        ( /\ HasReq(World, r)
          /\ bot_data[r].time # Absent
          /\ user_data[v].current_request = r
          /\ {v, other} \subseteq bot_data[r].volunteers
          /\ other # v ) =>
            hook_assign_assistance(World, r, other, t).ud[other].current_request # r

\* C25: a key enters the request store (context.bot_data, which
\* hook_introspect reports as "requests") only through a new-request
\* notification: no chat update of the onboarding (command, contact, text,
\* activity button) and no assign or cancel notification adds a key.
C25_OnlyNewRequestAddsKeys ==
    \A u \in {"A"}, up \in BOOLEAN :
        /\ StoreKeys(Handled(on_bot_start(Incoming(u), u))) \subseteq StoreKeys(World)
        /\ \A phone \in Phones, first_name \in FirstNames, last_name \in LastNames :
               StoreKeys(Handled(on_contact(Incoming(u), u, phone, first_name,
                                            last_name, FALSE, up)))
                   \subseteq StoreKeys(World)
        /\ \A text \in Texts :
               StoreKeys(Handled(on_text_message(Incoming(u), u, text, up)))
                   \subseteq StoreKeys(World)
        /\ \A code \in AllAssist :
               OnScreen(u, code) =>
                   StoreKeys(Handled(confirm_activities(Incoming(u), u, code, up)))
                       \subseteq StoreKeys(World)
        /\ \A r \in Requests, t \in Times :
               /\ StoreKeys(hook_assign_assistance(World, r, u, t))
                      \subseteq StoreKeys(World)
               /\ StoreKeys(hook_cancel_assistance(World, r, u))
                      \subseteq StoreKeys(World)

\* The final results of request r among the backend calls.
ResultsOf(calls, r) ==
    {i \in DOMAIN calls :
        calls[i].fn = "send_request_result" /\ calls[i].req = r}

\* What the survey recorded for the request, with the values of a field that
\* was never recorded.
Recorded(d, comments) ==
    [amount |-> IF d.amount \in Texts THEN d.amount ELSE "0",
     further_comments |-> comments,
     symptoms |-> IF d.symptoms # Absent THEN d.symptoms[1] ELSE <<>>,
     wellbeing |-> d.wellbeing[1],
     would_return |-> d.would_return[1]]

\* The handler sent exactly one final result for r, with this payload, and a
\* second "no comments" press on what it left sends none.
OneResult(w, u, r, payload) ==
    /\ Cardinality(ResultsOf(w.calls, r)) = 1
    /\ \A i \in ResultsOf(w.calls, r) : w.calls[i].payload = Some(payload)
    /\ ~HasReq(w, r)
    /\ ResultsOf(Handled(confirm_further(Touch([w EXCEPT !.ok = TRUE], u),
                                         u, TRUE)).calls, r)
           = ResultsOf(w.calls, r)

\* C26: a finalization of request R that completes (the "no comments" button,
\* or a text in EXPECTING_FURTHER_COMMENTS) sends the backend exactly one
\* final result for R, whose amount, further_comments, symptoms, wellbeing and
\* would_return are the values recorded for R (amount 0, comments empty,
\* symptoms empty when never recorded); R then leaves the store, so that a
\* repeated press sends no second result for it.
C26_OneResultWithRecordedValues ==
    \A u \in SurveyUsers, text \in SurveyTexts :
        LET r == user_data[u].current_request
            byButton == Handled(confirm_further(Incoming(u), u, TRUE))
            byText == Handled(on_text_message(Incoming(u), u, text, TRUE))
        IN  /\ (OnScreen(u, "furthercomments_no") /\ byButton.ok) =>
                   OneResult(byButton, u, r,
                             Recorded(bot_data[r],
                                      IF bot_data[r].further_comments \in Texts
                                      THEN bot_data[r].further_comments ELSE ""))
            /\ (user_data[u].state = EXPECTING_FURTHER_COMMENTS /\ byText.ok) =>
                   OneResult(byText, u, r, Recorded(bot_data[r], text))

\* A survey with an amount and a ticked symptom recorded, and one with
\* neither, both finalized by the button.
C26_Witness ==
    \E u \in SurveyUsers :
        LET r == user_data[u].current_request
        IN  /\ OnScreen(u, "furthercomments_no")
            /\ HasReq(World, r)
            /\ confirm_further(Incoming(u), u, TRUE).ok
            /\ bot_data[r].amount = "t1"
            /\ bot_data[r].symptoms = Some(<<"symptom_fever">>)
            /\ bot_data[r].further_comments = NoKey
            /\ bot_data[r].wellbeing = Some(4)

\* C27: when a user with state REQUEST_SENT presses a time offer (eta_<time>)
\* and the backend answers, exactly one offer is relayed, with the user's
\* reviewed_request, the user's chat id and the offered time; the user gets
\* the acknowledgement; the user's state, reviewed_request and
\* current_request and the request store are unchanged.
C27_OfferRelayedStateKept ==
    \A u \in Users, code \in Offers :
        (user_data[u].state = REQUEST_SENT /\ OnScreen(u, code)) =>
            LET w == Handled(negotiate_time(Incoming(u), u, code, TRUE))
            IN  /\ w.ok
                /\ user_data[u].reviewed_request \in Requests
                /\ w.calls = <<[fn |-> "relay_offer",
                                req |-> user_data[u].reviewed_request,
                                arg |-> "20:40",
                                payload |-> Some([volunteer_id |-> u])]>>
                /\ w.sent[u] = <<"MSG_ACK_TIME">>
                /\ Kept(w, u)

\* A volunteer who holds one request and is offered it again after giving up
\* the review: the offer carries reviewed_request.
C27_Witness ==
    \E u \in Users :
        /\ user_data[u].state = REQUEST_SENT
        /\ OnScreen(u, "eta_20:40")
        /\ user_data[u].reviewed_request = "R1"
        /\ user_data[u].current_request # "R1"
        /\ negotiate_time(Incoming(u), u, "eta_20:40", TRUE).calls # <<>>

\* C28: on a terminal option of the symptom menu (none, continue, no idea)
\* pressed by a user whose current request is in the store, the symptom
\* keyboard snapshot is removed, the would-you-return menu is sent and the
\* state is unchanged; for none and no idea the request's symptoms become the
\* empty list whatever was ticked; for continue they are left as they were.
C28_SymptomTerminal ==
    \A u \in SurveyUsers, code \in SymptomTerminals :
        LET r == user_data[u].current_request
        IN  (OnScreen(u, code) /\ HasReq(World, r)) =>
                LET w == Handled(confirm_symptom(Incoming(u), u, code))
                IN  /\ w.ok
                    /\ w.ud[u].symptom_keyboard = Absent
                    /\ w.sent[u] = <<"MSG_WOULD_YOU_DO_THIS_AGAIN">>
                    /\ "wouldyou" \in w.shown[u]
                    /\ w.ud[u].state = user_data[u].state
                    /\ IF code = "symptom_next"
                       THEN w.bd = bot_data
                       ELSE w.bd = [bot_data EXCEPT ![r].symptoms = Some(<<>>)]

\* Two symptoms are ticked and the keyboard snapshot is there: "none" empties
\* the list and "continue" keeps it.
C28_Witness ==
    \E u \in SurveyUsers :
        LET r == user_data[u].current_request
        IN  /\ OnScreen(u, "symptom_none")
            /\ HasReq(World, r)
            /\ user_data[u].state = EXPECTING_EXIT_SURVEY
            /\ user_data[u].symptom_keyboard # Absent
            /\ bot_data[r].symptoms # Absent
            /\ Len(bot_data[r].symptoms[1]) = 2
            /\ confirm_symptom(Incoming(u), u, "symptom_none").bd[r].symptoms
                   = Some(<<>>)
            /\ confirm_symptom(Incoming(u), u, "symptom_next").bd[r].symptoms
                   = bot_data[r].symptoms

\* C29: a new-request notification for a request id that is already in the
\* store replaces the stored dict by the notification's data: afterwards the
\* request has the new volunteers and none of the fields collected before
\* (time, amount, further_comments, symptoms, wellbeing, would_return).
C29_ReannouncementReplaces ==
    \A r \in Requests, vols \in SUBSET Users :
        HasReq(World, r) =>
            LET w == hook_request_assistance(World, r, vols)
            IN  /\ w.ok
                /\ DOMAIN w.bd = DOMAIN bot_data
                /\ w.bd[r].volunteers = vols
                /\ w.bd[r].time = Absent
                /\ w.bd[r].amount = NoKey
                /\ w.bd[r].further_comments = NoKey
                /\ w.bd[r].symptoms = Absent
                /\ w.bd[r].wellbeing = Absent
                /\ w.bd[r].would_return = Absent

\* R1 is stored with a time, an amount, a wellbeing score, ticked symptoms and
\* the would-return answer; it is announced again, to nobody.
C29_Witness ==
    /\ HasReq(World, "R1")
    /\ bot_data["R1"].volunteers = {"A"}
    /\ bot_data["R1"].time # Absent
    /\ bot_data["R1"].amount = "t1"
    /\ bot_data["R1"].wellbeing # Absent
    /\ bot_data["R1"].symptoms \notin {Absent, Some(<<>>)}
    /\ bot_data["R1"].would_return # Absent
    /\ hook_request_assistance(World, "R1", {}).bd["R1"] = NewRequestData({})

\* C30: in every reachable state, every current_request and reviewed_request
\* that is set (neither None nor missing) names a request of the store.
C30_NoDanglingReference ==
    \A u \in Users :
        /\ user_data[u].current_request \notin {None, NoKey}
               => HasReq(World, user_data[u].current_request)
        /\ user_data[u].reviewed_request \notin {None, NoKey}
               => HasReq(World, user_data[u].reviewed_request)

\* C31: a new-request notification for another request does not change the
\* state or the request references of a targeted volunteer who is fulfilling
\* request R1 (current_request R1, R1 in the store with its assigned time).
C31_NewRequestSparesBusyVolunteer ==
    \A u \in Users, r1 \in Requests, r2 \in Requests, vols \in SUBSET Users :
        ( /\ r1 # r2
          /\ u \in vols
          /\ HasReq(World, r1)
          /\ bot_data[r1].time # Absent
          /\ user_data[u].current_request = r1 ) =>
            LET w == hook_request_assistance(World, r2, vols)
            IN  /\ w.ud[u].state = user_data[u].state
                /\ w.ud[u].current_request = user_data[u].current_request
                /\ w.ud[u].reviewed_request = user_data[u].reviewed_request

\* C32: an assign notification for request R changes the state and the
\* reviewed_request only of volunteers whose reviewed_request is R: a
\* volunteer of R's list who refers to another request of the store keeps the
\* state and the reference.
C32_AssignSparesOtherReviews ==
    \A r \in Requests, other \in Requests, v \in Users, c \in Users, t \in Times :
        ( /\ r # other
          /\ HasReq(World, r)
          /\ HasReq(World, other)
          /\ c \in bot_data[r].volunteers \ {v}
          /\ user_data[c].reviewed_request = other ) =>
            LET w == hook_assign_assistance(World, r, v, t)
            IN  /\ w.ud[c].state = user_data[c].state
                /\ w.ud[c].reviewed_request = other

\* The status updates for request r among the backend calls.
StatusUpdatesOf(calls, r) ==
    {i \in DOMAIN calls :
        calls[i].fn = "update_request_status" /\ calls[i].req = r}

\* C33: a volunteer who was only offered request R (reviewed_request R, R in
\* the store with no assigned time, current_request not R) causes no backend
\* status update for R, whichever button of the caution, handling, in-progress
\* and expenses menus is pressed.
C33_OnlyAssigneeUpdatesStatus ==
    \A u \in Users, r \in Requests, up \in BOOLEAN,
       code \in {"caution_ok", "caution_cancel"} \cup AllHandle :
        ( /\ HasReq(World, r)
          /\ bot_data[r].time = Absent
          /\ user_data[u].reviewed_request = r
          /\ user_data[u].current_request # r
          /\ OnScreen(u, code) ) =>
            StatusUpdatesOf(Pressed(u, code, up).calls, r) = {}

\* The accept command followed by a press on a time of the menu it sends.
AcceptAndPick(u, code, up) ==
    negotiate_time(on_accept(Incoming(u), u), u, code, up)

\* C34: every backend call that takes a request id is made with the id of a
\* request present in the store, never None; a user with no reviewed request
\* who issues the accept command and picks a time causes no offer to be
\* relayed.
C34_CallsNameStoredRequest ==
    \A u \in Users, code \in Offers, up \in BOOLEAN :
        LET calls == AcceptAndPick(u, code, up).calls
        IN  /\ \A i \in DOMAIN calls : HasReq(World, calls[i].req)
            /\ user_data[u].reviewed_request \in {None, NoKey} => calls = <<>>

\* C35: a targeted volunteer who was skipped when the new-request
\* notification for R was processed (absent from the store, or mid-request)
\* is sent no message by the assign notification for R naming somebody else,
\* and gets no user state created or changed by it.
C35_SkippedVolunteerUntouched ==
    \A r \in Requests, vols \in SUBSET Users, c \in Users, v \in Users,
       t \in Times :
        (c \in vols /\ c \notin Contacted(World, vols) /\ v # c) =>
            LET w == hook_assign_assistance(
                         hook_request_assistance(World, r, vols), r, v, t)
            IN  /\ w.sent[c] = <<>>
                /\ w.ud[c] = user_data[c]
                /\ c \in w.known <=> c \in known

\* The options whose checkbox is ticked in a menu of three rows.
TickedOf(keyboard, options) ==
    {options[i] : i \in {j \in DOMAIN options : keyboard[j]}}

\* The symptom menu snapshot of user u agrees with the symptoms of their
\* current request.
SymptomMenuAgrees(w, u) ==
    LET r == w.ud[u].current_request
    IN  (w.ud[u].symptom_keyboard # Absent /\ HasReq(w, r)) =>
            TickedOf(Get(w.ud[u].symptom_keyboard),
                     <<"symptom_fever", "symptom_cough", "symptom_heavybreathing">>)
                = SymptomsOf(w, r)

\* The activity menu snapshot of user u agrees with the activities of their
\* profile.
ActivityMenuAgrees(w, u) ==
    (w.ud[u].assist_keyboard # Absent /\ u \in DOMAIN w.reg) =>
        TickedOf(Get(w.ud[u].assist_keyboard),
                 <<"assist_transport", "assist_delivery", "assist_phone">>)
            = Range(w.reg[u].activities.items)

RECURSIVE SymptomPresses(_, _, _)
\* The symptom presses of a sequence, handled one after the other.
SymptomPresses(w, u, codes) ==
    IF codes = <<>> THEN w
    ELSE SymptomPresses(Handled(confirm_symptom(w, u, Head(codes))), u, Tail(codes))

RECURSIVE ActivityPresses(_, _, _)
\* The activity presses of a sequence, handled one after the other.
ActivityPresses(w, u, codes) ==
    IF codes = <<>> THEN w
    ELSE ActivityPresses(Handled(confirm_activities(w, u, Head(codes), TRUE)),
                         u, Tail(codes))

\* The sequences of one to three presses on the buttons of a set.
PressesOf(buttons) ==
    UNION {[1 .. n -> buttons] : n \in 1 .. 3}

\* C36: after any sequence of symptom or activity presses (presses on a
\* symptom menu after a terminal option removed the snapshot included), an
\* option's checkbox in the user's menu snapshot is ticked if and only if the
\* option is a member of the backing set.  The sequences start where the menu
\* is first shown: no snapshot, no symptom recorded, no activity chosen.
C36_SnapshotMatchesSet ==
    \A u \in Users :
        /\ ( /\ OnScreen(u, "symptom_next")
             /\ HasReq(World, user_data[u].current_request)
             /\ user_data[u].symptom_keyboard = Absent
             /\ bot_data[user_data[u].current_request].symptoms = Absent ) =>
               \A codes \in PressesOf(SymptomToggles \cup {"symptom_next"}) :
                   SymptomMenuAgrees(SymptomPresses(Incoming(u), u, codes), u)
        /\ ( /\ OnScreen(u, "assist_next")
             /\ u \in DOMAIN registrations
             /\ user_data[u].assist_keyboard = Absent
             /\ registrations[u].activities = [tag |-> "list", items |-> <<>>] ) =>
               \A codes \in PressesOf(AssistToggles) :
                   ActivityMenuAgrees(ActivityPresses(Incoming(u), u, codes), u)

\* A press on the symptom menu after "continue" removed the snapshot: the
\* menu restarts from the empty one while the list keeps the fever.
C36_Scenario ==
    \E u \in Users :
        /\ OnScreen(u, "symptom_next")
        /\ HasReq(World, user_data[u].current_request)
        /\ user_data[u].symptom_keyboard = Absent
        /\ bot_data[user_data[u].current_request].symptoms = Absent
        /\ LET w == SymptomPresses(Incoming(u), u,
                        <<"symptom_fever", "symptom_next", "symptom_cough">>)
           IN  /\ w.ok
               /\ w.ud[u].symptom_keyboard = Some(<<FALSE, TRUE, FALSE>>)
               /\ SymptomsOf(w, user_data[u].current_request)
                      = {"symptom_fever", "symptom_cough"}

\* The activity half alone, for the sequences of activity presses.
C36_ActivitiesAgree ==
    \A u \in Users :
        ( /\ OnScreen(u, "assist_next")
          /\ u \in DOMAIN registrations
          /\ user_data[u].assist_keyboard = Absent
          /\ registrations[u].activities = [tag |-> "list", items |-> <<>>] ) =>
            \A codes \in PressesOf(AssistToggles) :
                ActivityMenuAgrees(ActivityPresses(Incoming(u), u, codes), u)

\* The activity picker is the pending question of user u.
PickerPending(u) ==
    /\ Answering(u)
    /\ Head(Pending(registrations[u])) = "activities"
    /\ OnScreen(u, "assist_next")

\* C37: a free-text message sent while the activity picker is the pending
\* question never writes to the activities field, and no profile is registered
\* with activities that were not selected through the picker.
C37_TextNeverSetsActivities ==
    \A u \in Users, text \in Texts, up \in BOOLEAN :
        PickerPending(u) =>
            LET w == on_text_message(Incoming(u), u, text, up)
            IN  /\ u \in DOMAIN w.reg =>
                       w.reg[u].activities = registrations[u].activities
                /\ \A i \in DOMAIN w.calls :
                       w.calls[i].fn = "register_pending_volunteer" =>
                           /\ Get(w.calls[i].payload).activities.tag = "list"
                           /\ Range(Get(w.calls[i].payload).activities.items)
                                  \subseteq AssistToggles

\* C38: whenever a user's state is EXPECTING_FURTHER_COMMENTS, the request
\* named by their current_request is in the store with wellbeing and
\* would_return recorded, and the finalization triggered from that state (the
\* "no comments" button, the backend answering) does not fail.
C38_SurveyCompleteBeforeComments ==
    \A u \in Users :
        user_data[u].state = EXPECTING_FURTHER_COMMENTS =>
            LET r == user_data[u].current_request
            IN  /\ HasReq(World, r)
                /\ bot_data[r].wellbeing # Absent
                /\ bot_data[r].would_return # Absent
                /\ confirm_further(Incoming(u), u, TRUE).ok

\* Request R is in the store, assigned to volunteer v with a time.
FlowAssigned(v) ==
    /\ HasReq(World, FlowRequest)
    /\ bot_data[FlowRequest].time # Absent
    /\ user_data[v].current_request = FlowRequest
    /\ user_data[v].reviewed_request = FlowRequest

\* Request R is out of the store and volunteer v is available again.
FlowFinalized(v) ==
    /\ ~HasReq(World, FlowRequest)
    /\ user_data[v].state = AVAILABLE
    /\ user_data[v].current_request = None

\* Another notification about R arrived while v was fulfilling it: a second
\* new-request notification (the stored time is gone) or an assign
\* notification naming somebody else (v's reviewed_request is gone).
FlowDisturbed(v) ==
    /\ HasReq(World, FlowRequest)
    /\ user_data[v].current_request = FlowRequest
    /\ \/ bot_data[FlowRequest].time = Absent
       \/ user_data[v].reviewed_request # FlowRequest

====
